---- MODULE Spec2Model ----
(***************************************************************************)
(* TLS 1.0/1.1/1.2 client session of iPXE (net/tls.c) as a state machine.  *)
(*                                                                         *)
(* Every C function of the session is an operator that takes the state it  *)
(* works on and returns the state it leaves (and its return code), so that *)
(* an action is the whole handler: the calls it makes are nested operator  *)
(* applications.  Byte buffers are sequences of cells.  A cell is either a *)
(* literal byte <<"b", n>> or a symbolic cell standing for one byte of the *)
(* output of a cryptographic primitive (digest, HMAC, PRF, cipher, RSA,    *)
(* random bits); the primitives themselves live outside this file.         *)
(***************************************************************************)
EXTENDS Integers, Sequences, FiniteSets, TLC

(***************************************************************************)
(* Bounds of the model                                                     *)
(***************************************************************************)
\* records the server may put in flight during one run
MaxRx == 4
\* ApplicationData records the application may get sent during one run
MaxApp == 2

(***************************************************************************)
(* Cells and integer fields                                                *)
(***************************************************************************)
B(n) == <<"b", n>>

Val(c) == c[2]

Bytes(s) == [i \in 1..Len(s) |-> B(s[i])]

\* a symbolic byte string of n cells: the first cell carries the value, the
\* others only fill the length
Blob(val, n) == [i \in 1..n |-> IF i = 1 THEN <<"s", val>> ELSE <<"f", i>>]

\* what names a byte string when it is the input of a primitive: its length
\* and its cells without the fillers
Id(x) == << <<"n", Len(x)>> >> \o SelectSeq(x, LAMBDA c : c[1] # "f")

\* htons ( n ) stored in a uint16_t field
U16(n) == <<B((n % 65536) \div 256), B(n % 256)>>

\* ntohs of a 2-byte field
N16(f) == Val(f[1]) * 256 + Val(f[2])

\* tls_set_uint24 on a zeroed field
tls_set_uint24(value) ==
    LET v == value % 16777216
    IN  <<B(v \div 65536), B((v \div 256) % 256), B(v % 256)>>

tls_uint24(f) == Val(f[1]) * 65536 + Val(f[2]) * 256 + Val(f[3])

\* type_length word of a handshake message: type byte, then u24 length
TypeLength(type, len) == <<B(type)>> \o tls_set_uint24(len)

Drop(s, n) == SubSeq(s, n + 1, Len(s))

Take(s, n) == SubSeq(s, 1, n)

\* v under the name the operator F gives it: a local variable
With(v, F(_)) == F(v)

(***************************************************************************)
(* 64-bit sequence numbers, as four 16-bit limbs, most significant first   *)
(***************************************************************************)
Limb == 65536

U64Zero == <<0, 0, 0, 0>>

\* ~( ( uint64_t ) 0 )
U64Max == <<Limb - 1, Limb - 1, Limb - 1, Limb - 1>>

\* x + 1 modulo 2^64
U64Inc(x) ==
    IF x[4] < Limb - 1 THEN <<x[1], x[2], x[3], x[4] + 1>>
    ELSE IF x[3] < Limb - 1 THEN <<x[1], x[2], x[3] + 1, 0>>
    ELSE IF x[2] < Limb - 1 THEN <<x[1], x[2] + 1, 0, 0>>
    ELSE IF x[1] < Limb - 1 THEN <<x[1] + 1, 0, 0, 0>>
    ELSE U64Zero

\* cpu_to_be64 ( seq ) as eight bytes
U64Bytes(x) == U16(x[1]) \o U16(x[2]) \o U16(x[3]) \o U16(x[4])

(***************************************************************************)
(* Protocol constants (ipxe/tls.h, errno.h)                                *)
(***************************************************************************)
TLS_VERSION_SSL_3_0 == 768
TLS_VERSION_TLS_1_0 == 769
TLS_VERSION_TLS_1_1 == 770
TLS_VERSION_TLS_1_2 == 771
TLS_VERSION_TLS_1_3 == 772

TLS_TYPE_CHANGE_CIPHER == 20
TLS_TYPE_ALERT == 21
TLS_TYPE_HANDSHAKE == 22
TLS_TYPE_DATA == 23

TLS_HELLO_REQUEST == 0
TLS_CLIENT_HELLO == 1
TLS_SERVER_HELLO == 2
TLS_CERTIFICATE == 11
TLS_CERTIFICATE_REQUEST == 13
TLS_SERVER_HELLO_DONE == 14
TLS_CERTIFICATE_VERIFY == 15
TLS_CLIENT_KEY_EXCHANGE == 16
TLS_FINISHED == 20

TLS_ALERT_WARNING == 1
TLS_ALERT_FATAL == 2

TLS_RSA_WITH_AES_128_CBC_SHA == 47
TLS_RSA_WITH_AES_256_CBC_SHA == 53
TLS_RSA_WITH_AES_128_CBC_SHA256 == 60
TLS_RSA_WITH_AES_256_CBC_SHA256 == 61

TLS_TX_CLIENT_HELLO == "TLS_TX_CLIENT_HELLO"
TLS_TX_CERTIFICATE == "TLS_TX_CERTIFICATE"
TLS_TX_CLIENT_KEY_EXCHANGE == "TLS_TX_CLIENT_KEY_EXCHANGE"
TLS_TX_CERTIFICATE_VERIFY == "TLS_TX_CERTIFICATE_VERIFY"
TLS_TX_CHANGE_CIPHER == "TLS_TX_CHANGE_CIPHER"
TLS_TX_FINISHED == "TLS_TX_FINISHED"

TLS_RX_HEADER == "TLS_RX_HEADER"
TLS_RX_DATA == "TLS_RX_DATA"

TLS_SERVER_NAME == 0
TLS_SERVER_NAME_HOST_NAME == 0
TLS_RSA_ALGORITHM == 1
TLS_SHA256_ALGORITHM == 4

\* return codes: OK is 0, the others are the negative errno of that name
OK == "OK"
ENOMEM == "ENOMEM"
EINVAL == "EINVAL"
ENOTSUP == "ENOTSUP"
EPROTO == "EPROTO"
EPERM == "EPERM"
EIO == "EIO"
ENOTCONN == "ENOTCONN"
EPIPE == "EPIPE"
ERANGE == "ERANGE"
EACCES_INCOMPLETE == "EACCES_INCOMPLETE"
EACCES_WRONG_NAME == "EACCES_WRONG_NAME"
ECONNRESET == "ECONNRESET"

\* a NULL context pointer, a NULL buffer pointer, and "no suite found"
NULL == <<"NULL">>

NoBuf == << <<"NULL">> >>

NoSuite ==
    [code |-> -1, key_len |-> 0, pubkey |-> "none", cipher |-> "none",
     digest |-> "none"]

(***************************************************************************)
(* Cryptographic primitives, by contract.  Inputs and outputs are cell      *)
(* sequences; an output is a Blob whose value names the primitive and its  *)
(* inputs, so that two outputs agree exactly when the inputs agree.        *)
(***************************************************************************)
digest_size(digest) ==
    CASE digest = "sha256" -> 32
      [] digest = "sha1" -> 20
      [] digest = "md5" -> 16
      [] digest = "md5_sha1" -> 36
      [] OTHER -> 0

\* cipher->blocksize: 16 for AES-CBC, 1 for the null cipher
cipher_blocksize(cipher) == IF cipher = "aes_cbc" THEN 16 ELSE 1

is_stream_cipher(cipher) == cipher_blocksize(cipher) = 1

\* digest_final over a context that has absorbed the cells ctx
digest_final(digest, ctx) ==
    Blob(<<"digest", digest, Id(ctx)>>, digest_size(digest))

\* hmac_init .. hmac_update .. hmac_final
hmac(digest, key, data) ==
    Blob(<<"hmac", digest, Id(key), Id(data)>>, digest_size(digest))

\* cipher_setkey followed by cipher_setiv: a context that has processed
\* no record yet
cipher_ctx_keyed(key, iv) == <<"ctx", Id(key), Id(iv), 0>>

\* cipher_encrypt: the context after the call and the ciphertext
cipher_encrypt(cipher, ctx, src) ==
    IF cipher = "aes_cbc" /\ ctx[1] = "ctx"
    THEN [ctx |-> <<"ctx", ctx[2], ctx[3], ctx[4] + 1>>,
          dst |-> Blob(<<"enc", ctx, src>>, Len(src))]
    ELSE IF cipher = "aes_cbc"
    THEN [ctx |-> ctx, dst |-> Blob(<<"enc", ctx, src>>, Len(src))]
    ELSE [ctx |-> ctx, dst |-> src]

\* cipher_decrypt: inverse of cipher_encrypt under the same context
cipher_decrypt(cipher, ctx, src) ==
    IF cipher = "aes_cbc"
    THEN IF Len(src) > 0 /\ src[1][1] = "s" /\ src[1][2][1] = "enc"
            /\ src[1][2][2] = ctx /\ Len(src[1][2][3]) = Len(src)
         THEN [ctx |-> IF ctx[1] = "ctx"
                       THEN <<"ctx", ctx[2], ctx[3], ctx[4] + 1>> ELSE ctx,
               dst |-> src[1][2][3]]
         ELSE [ctx |-> ctx, dst |-> Blob(<<"garbage", ctx, Id(src)>>, Len(src))]
    ELSE [ctx |-> ctx, dst |-> src]

\* rbg_generate: len fresh random cells, named by what they are drawn for
random_bytes(what, len) == Blob(<<"random", what>>, len)

(***************************************************************************)
(* Cipher suites                                                           *)
(***************************************************************************)
tls_cipher_suite_null ==
    [code |-> 0, key_len |-> 0, pubkey |-> "pubkey_null",
     cipher |-> "cipher_null", digest |-> "digest_null"]

tls_cipher_suites ==
    << [code |-> TLS_RSA_WITH_AES_256_CBC_SHA256, key_len |-> 32,
        pubkey |-> "rsa", cipher |-> "aes_cbc", digest |-> "sha256"],
       [code |-> TLS_RSA_WITH_AES_128_CBC_SHA256, key_len |-> 16,
        pubkey |-> "rsa", cipher |-> "aes_cbc", digest |-> "sha256"],
       [code |-> TLS_RSA_WITH_AES_256_CBC_SHA, key_len |-> 32,
        pubkey |-> "rsa", cipher |-> "aes_cbc", digest |-> "sha1"],
       [code |-> TLS_RSA_WITH_AES_128_CBC_SHA, key_len |-> 16,
        pubkey |-> "rsa", cipher |-> "aes_cbc", digest |-> "sha1"] >>

TLS_NUM_CIPHER_SUITES == Len(tls_cipher_suites)

\* the suite with that code, or NoSuite
tls_find_cipher_suite(cipher_suite) ==
    LET hits == {i \in 1..TLS_NUM_CIPHER_SUITES :
                    tls_cipher_suites[i].code = cipher_suite}
    IN  IF hits = {} THEN NoSuite
        ELSE tls_cipher_suites[CHOOSE i \in hits : \A j \in hits : i <= j]

\* a cipher specification after memset 0 and suite = null
NullCipherspec ==
    [suite |-> tls_cipher_suite_null, dynamic |-> FALSE,
     pubkey_ctx |-> NULL, cipher_ctx |-> NULL, cipher_next_ctx |-> NULL,
     mac_secret |-> <<>>]

tls_clear_cipher(cipherspec) == NullCipherspec

\* rc and the cipher specification left; zalloc succeeds iff mem_ok
tls_set_cipher(cipherspec, suite, mem_ok) ==
    IF ~mem_ok
    THEN [rc |-> ENOMEM, cipherspec |-> tls_clear_cipher(cipherspec)]
    ELSE [rc |-> OK,
          cipherspec |->
             [suite |-> suite, dynamic |-> TRUE,
              pubkey_ctx |-> <<"zero">>, cipher_ctx |-> <<"zero">>,
              cipher_next_ctx |-> <<"zero">>,
              mac_secret |-> Bytes([i \in 1..digest_size(suite.digest) |-> 0])]]

\* the change made whatever the pending suite is
tls_change_cipher_unchecked(pending, active) ==
    [rc |-> OK, pending |-> tls_clear_cipher(active), active |-> pending]

\* rc, and the pending and active specifications left
tls_change_cipher(pending, active) ==
    IF pending.suite = tls_cipher_suite_null
    THEN [rc |-> ENOTSUP, pending |-> pending, active |-> active]
    ELSE [rc |-> OK, pending |-> tls_clear_cipher(active), active |-> pending]

(***************************************************************************)
(* The session.  A state s handed through the operators is the session     *)
(* structure s.tls together with what its two neighbours hold: s.wire, the *)
(* records handed to the ciphertext side, s.app, the data handed to the    *)
(* plaintext side, s.notified, the window change notifications sent to the *)
(* plaintext side, and s.cwin, the window the ciphertext side offers.      *)
(*                                                                         *)
(* The answers of the surroundings during one activation are a record e:   *)
(*   mem_ok   malloc / zalloc succeed                                      *)
(*   iob_ok   xfer_alloc_iob succeeds                                      *)
(*   tx_rc    what the ciphertext side returns from xfer_deliver_iob       *)
(*   app_rc   what the plaintext side returns from xfer_deliver_raw        *)
(*   app_close  the plaintext side closes the session from within a call   *)
(*   key_ok   the private and public key operations succeed                *)
(***************************************************************************)
\* the server name given to add_tls: "ab"
ServerName == <<B(97), B(98)>>

\* struct interface: plugged and open, or shut down with a reason
IntfOpen == [open |-> TRUE, rc |-> "-"]

\* the default window of an interface that is not plugged: ~( ( size_t ) 0 )
XFER_WINDOW_UNLIMITED == 2147483647

\* intf_shutdown: block further operations, pass rc to the peer, unplug
intf_shutdown(intf, rc) ==
    IF intf.open THEN [open |-> FALSE, rc |-> rc] ELSE intf

process_add(s) == [s EXCEPT !.tls.process = TRUE]

process_del(s) == [s EXCEPT !.tls.process = FALSE]

tls_close(s, rc) ==
    LET s1 == process_del(s)
        s2 == [s1 EXCEPT !.tls.cipherstream = intf_shutdown(@, rc)]
    IN  [s2 EXCEPT !.tls.plainstream = intf_shutdown(@, rc)]

\* xfer_window ( &tls->cipherstream )
xfer_window(s) ==
    IF s.tls.cipherstream.open THEN s.cwin ELSE XFER_WINDOW_UNLIMITED

\* xfer_deliver_iob ( &tls->cipherstream, iobuf ): rc and the state left
xfer_deliver_iob(s, e, iobuf) ==
    IF ~s.tls.cipherstream.open THEN [rc |-> EPIPE, s |-> s]
    ELSE IF e.tx_rc # OK THEN [rc |-> e.tx_rc, s |-> s]
    ELSE [rc |-> OK, s |-> [s EXCEPT !.wire = Append(@, iobuf)]]

\* what the plaintext side does inside a call made to it
app_reenter(s, e) == IF e.app_close THEN tls_close(s, ECONNRESET) ELSE s

\* xfer_deliver_raw ( &tls->plainstream, data, len )
xfer_deliver_raw(s, e, data) ==
    IF ~s.tls.plainstream.open THEN [rc |-> EPIPE, s |-> s]
    ELSE IF ~e.iob_ok THEN [rc |-> ENOMEM, s |-> s]
    ELSE IF e.app_rc # OK THEN [rc |-> e.app_rc, s |-> app_reenter(s, e)]
    ELSE [rc |-> OK, s |-> app_reenter([s EXCEPT !.app = Append(@, data)], e)]

\* xfer_window_changed ( &tls->plainstream )
xfer_window_changed(s, e) ==
    IF ~s.tls.plainstream.open THEN s
    ELSE app_reenter([s EXCEPT !.notified = @ + 1], e)

\* a notification that leaves the process where it is
tls_tx_resume_idle(s) == s

\* tls_tx_resume
tls_tx_resume(s) == process_add(s)

(***************************************************************************)
(* PRF and secrets                                                         *)
(***************************************************************************)
\* the characters of a string literal label, sizeof ( label ) - 1 of them
Label(str, n) == [i \in 1..n |-> IF i = 1 THEN <<"c", str>> ELSE <<"f", i>>]

\* tls_p_hash_va: out_len cells of P_hash ( secret, seeds )
tls_p_hash_va(digest, secret, out_len, seeds) ==
    Blob(<<"p_hash", digest, Id(secret), Id(seeds)>>, out_len)

\* P_SHA256 whatever the version is
tls_prf_sha256(version, secret, out_len, seeds) ==
    tls_p_hash_va("sha256", secret, out_len, seeds)

\* tls_prf: seeds is the label followed by the seed chunks
tls_prf(version, secret, out_len, seeds) ==
    IF version >= TLS_VERSION_TLS_1_2
    THEN tls_p_hash_va("sha256", secret, out_len, seeds)
    ELSE LET secret_len == Len(secret)
             subsecret_len == (secret_len + 1) \div 2
             md5_secret == Take(secret, subsecret_len)
             sha1_secret == Drop(secret, secret_len - subsecret_len)
         IN  Blob(<<"xor",
                    Id(tls_p_hash_va("md5", md5_secret, out_len, seeds)),
                    Id(tls_p_hash_va("sha1", sha1_secret, out_len, seeds))>>,
                  out_len)

\* sizeof ( tls->master_secret ), sizeof ( tls->pre_master_secret )
MasterSecretLen == 48

\* sizeof ( tls->client_random ), sizeof ( tls->server_random )
RandomLen == 32

\* the master secret from the server's random bytes before the client's
tls_generate_master_secret_server_first(tls) ==
    [tls EXCEPT !.master_secret =
        tls_prf(tls.version, tls.pre_master_secret, MasterSecretLen,
                Label("master secret", 13) \o tls.server_random
                    \o tls.client_random)]

tls_generate_master_secret(tls) ==
    [tls EXCEPT !.master_secret =
        tls_prf(tls.version, tls.pre_master_secret, MasterSecretLen,
                Label("master secret", 13) \o tls.client_random
                    \o tls.server_random)]

\* rc and the session left; the key block is cut into the six parts
tls_generate_keys(tls) ==
    LET suite == tls.tx_cipherspec_pending.suite
        hash_size == digest_size(suite.digest)
        key_size == suite.key_len
        iv_size == cipher_blocksize(suite.cipher)
        total == 2 * (hash_size + key_size + iv_size)
        key_block == tls_prf(tls.version, tls.master_secret, total,
                             Label("key expansion", 13) \o tls.server_random
                                 \o tls.client_random)
        part(off, len) == Blob(<<"part", Id(key_block), off, len>>, len)
        tx_mac == part(0, hash_size)
        rx_mac == part(hash_size, hash_size)
        tx_key == part(2 * hash_size, key_size)
        rx_key == part(2 * hash_size + key_size, key_size)
        tx_iv == part(2 * hash_size + 2 * key_size, iv_size)
        rx_iv == part(2 * hash_size + 2 * key_size + iv_size, iv_size)
    IN  [rc |-> OK,
         tls |-> [tls EXCEPT
                    !.tx_cipherspec_pending.mac_secret = tx_mac,
                    !.rx_cipherspec_pending.mac_secret = rx_mac,
                    !.tx_cipherspec_pending.cipher_ctx =
                        cipher_ctx_keyed(tx_key, tx_iv),
                    !.rx_cipherspec_pending.cipher_ctx =
                        cipher_ctx_keyed(rx_key, rx_iv)]]

\* the selection that puts the suite into the active specifications
tls_select_cipher_active(tls, cipher_suite, e) ==
    LET suite == tls_find_cipher_suite(cipher_suite)
        tx == tls_set_cipher(tls.tx_cipherspec, suite, e.mem_ok)
        rx == tls_set_cipher(tls.rx_cipherspec, suite, e.mem_ok)
    IN  IF suite = NoSuite THEN [rc |-> ENOTSUP, tls |-> tls]
        ELSE IF tx.rc # OK
        THEN [rc |-> tx.rc,
              tls |-> [tls EXCEPT !.tx_cipherspec = tx.cipherspec]]
        ELSE [rc |-> rx.rc,
              tls |-> [tls EXCEPT !.tx_cipherspec = tx.cipherspec,
                                  !.rx_cipherspec = rx.cipherspec]]

\* rc and the session left
tls_select_cipher(tls, cipher_suite, e) ==
    LET suite == tls_find_cipher_suite(cipher_suite)
        tx == tls_set_cipher(tls.tx_cipherspec_pending, suite, e.mem_ok)
        rx == tls_set_cipher(tls.rx_cipherspec_pending, suite, e.mem_ok)
    IN  IF suite = NoSuite THEN [rc |-> ENOTSUP, tls |-> tls]
        ELSE IF tx.rc # OK
        THEN [rc |-> tx.rc,
              tls |-> [tls EXCEPT !.tx_cipherspec_pending = tx.cipherspec]]
        ELSE [rc |-> rx.rc,
              tls |-> [tls EXCEPT !.tx_cipherspec_pending = tx.cipherspec,
                                  !.rx_cipherspec_pending = rx.cipherspec]]

\* the record added to the SHA-256 context alone
tls_add_handshake_sha256_only(tls, data) ==
    [tls EXCEPT !.handshake_sha256_ctx = @ \o data]

(***************************************************************************)
(* Handshake verification                                                  *)
(***************************************************************************)
tls_add_handshake(tls, data) ==
    [tls EXCEPT !.handshake_md5_sha1_ctx = @ \o data,
                !.handshake_sha256_ctx = @ \o data]

\* the context tls->handshake_ctx points to
handshake_ctx(tls) ==
    IF tls.handshake_ctx = "handshake_sha256_ctx"
    THEN tls.handshake_sha256_ctx ELSE tls.handshake_md5_sha1_ctx

\* digest of a copy of the running context; the session is not touched
tls_verify_handshake(tls) ==
    digest_final(tls.handshake_digest, handshake_ctx(tls))

(***************************************************************************)
(* X.509 and public keys, by contract                                      *)
(***************************************************************************)
\* the DER encoding of the certificate called id, as one opaque cell
Der(id) == << <<"der", id>> >>

\* bytes of an RSA modulus: context->max_len of an initialised RSA context
RsaModulusLen == 64

\* the certificates of the model: subject name, whether the chain from it
\* validates, and the public key it carries
X509(id) ==
    CASE id = "good" ->
            [name |-> ServerName, valid |-> TRUE, key |-> "server_key"]
      [] id = "wrong_name" ->
            [name |-> <<B(97), B(99)>>, valid |-> TRUE, key |-> "other_key"]
      [] id = "long_name" ->
            [name |-> <<B(97), B(98), B(99)>>, valid |-> TRUE,
             key |-> "other_key"]
      [] id = "untrusted" ->
            [name |-> ServerName, valid |-> FALSE, key |-> "rogue_key"]
      [] OTHER ->
            [name |-> <<B(99)>>, valid |-> TRUE, key |-> "client_key"]

\* x509_parse: rc and the certificate
x509_parse(data) ==
    IF Len(data) = 1 /\ data[1][1] = "der"
    THEN [rc |-> OK, cert |-> X509(data[1][2])]
    ELSE [rc |-> EINVAL, cert |-> NULL]

\* pubkey_max_len
pubkey_max_len(pubkey, ctx) ==
    IF pubkey = "rsa" /\ ctx[1] = "rsa" THEN RsaModulusLen ELSE 0

\* pubkey_encrypt: len (negative on error, given as rc) and the ciphertext.
\* rsa_encrypt on a context that holds no key writes through a null
\* pointer: the model lets the call either fail or return max_len = 0.
pubkey_encrypt(pubkey, ctx, plaintext, e) ==
    IF pubkey = "rsa" /\ ctx[1] = "rsa"
    THEN IF Len(plaintext) + 11 > RsaModulusLen
         THEN [rc |-> ERANGE, len |-> 0, out |-> <<>>]
         ELSE IF ~e.key_ok THEN [rc |-> EIO, len |-> 0, out |-> <<>>]
         ELSE [rc |-> OK, len |-> RsaModulusLen,
               out |-> Blob(<<"rsa_encrypt", ctx, Id(plaintext)>>,
                            RsaModulusLen)]
    ELSE IF pubkey = "rsa"
    THEN IF e.key_ok THEN [rc |-> OK, len |-> 0, out |-> <<>>]
         ELSE [rc |-> EIO, len |-> 0, out |-> <<>>]
    ELSE [rc |-> OK, len |-> 0, out |-> <<>>]

\* a size_t, taken 16 bits wide: every length of the model stays far below
\* 2^16, and a difference below 0 wraps to a value far above them, as it
\* does with 32 or 64 bits
size_t(x) == x % 65536

\* get_random_nz: len random bytes, none of them 0
get_random_nz(len) == [i \in 1..len |-> <<"nz", i>>]

\* rsa_encrypt on a context whose modulus has max_len bytes: the outcomes
\* the call may have, each with rc, the length returned, the encoded message
\* and the ciphertext written.  When the padding does not fit the buffer of
\* max_len bytes, get_random_nz and memcpy write outside it: the call then
\* either fails in get_random_nz or returns max_len over a damaged buffer.
rsa_encrypt(context_max_len, plaintext, e) ==
    LET plaintext_len == Len(plaintext)
        max_len == size_t(context_max_len - 11)
        random_nz_len == size_t(max_len - plaintext_len + 8)
        encoded == <<B(0), B(2)>> \o get_random_nz(random_nz_len)
                      \o <<B(0)>> \o plaintext
    IN  IF plaintext_len > max_len
        THEN {[rc |-> ERANGE, len |-> 0, encoded |-> <<>>, out |-> <<>>]}
        ELSE IF 2 + random_nz_len + 1 + plaintext_len # context_max_len
        THEN {[rc |-> EIO, len |-> 0, encoded |-> <<"overrun">>,
               out |-> <<>>],
              [rc |-> OK, len |-> context_max_len, encoded |-> <<"overrun">>,
               out |-> Blob(<<"rsa_cipher", "overrun">>, context_max_len)]}
        ELSE IF ~e.key_ok
        THEN {[rc |-> EIO, len |-> 0, encoded |-> <<B(0), B(2)>>,
               out |-> <<>>]}
        ELSE {[rc |-> OK, len |-> context_max_len, encoded |-> encoded,
               out |-> Blob(<<"rsa_cipher", Id(encoded)>>, context_max_len)]}

(***************************************************************************)
(* Record encryption                                                       *)
(***************************************************************************)
\* struct tls_header: type, version, length
TlsHeader(type, version, length) ==
    <<B(type % 256)>> \o U16(version) \o U16(length)

\* sizeof ( struct tls_header )
TlsHeaderLen == 5

tls_hmac(cipherspec, seq, tlshdr, data) ==
    hmac(cipherspec.suite.digest, cipherspec.mac_secret,
         U64Bytes(seq) \o tlshdr \o data)

\* the plaintext structure, or NoBuf when malloc fails
tls_assemble_stream(tls, data, digest, mem_ok) ==
    IF ~mem_ok THEN NoBuf ELSE data \o digest

\* the block structure with an IV in front whatever the version is
tls_assemble_block_iv_always(tls, data, digest, mem_ok) ==
    LET blocksize == cipher_blocksize(tls.tx_cipherspec.suite.cipher)
        mac_len == digest_size(tls.tx_cipherspec.suite.digest)
        len == Len(data)
        padding_len ==
            (blocksize - ((blocksize + len + mac_len + 1) % blocksize))
               % blocksize
        iv == random_bytes(<<"iv", tls.tx_seq>>, blocksize)
    IN  IF ~mem_ok THEN NoBuf
        ELSE iv \o data \o Take(digest, mac_len)
                \o [i \in 1..(padding_len + 1) |-> B(padding_len)]

tls_assemble_block(tls, data, digest, mem_ok) ==
    LET blocksize == cipher_blocksize(tls.tx_cipherspec.suite.cipher)
        mac_len == digest_size(tls.tx_cipherspec.suite.digest)
        iv_len == IF tls.version >= TLS_VERSION_TLS_1_1 THEN blocksize ELSE 0
        len == Len(data)
        padding_len ==
            (blocksize - ((iv_len + len + mac_len + 1) % blocksize)) % blocksize
        iv == random_bytes(<<"iv", tls.tx_seq>>, iv_len)
    IN  IF ~mem_ok THEN NoBuf
        ELSE iv \o data \o Take(digest, mac_len)
                \o [i \in 1..(padding_len + 1) |-> B(padding_len)]

\* the send that encrypts in the active context itself
tls_send_plaintext_inplace(s, e, type, data) ==
    LET tls == s.tls
        cipherspec == tls.tx_cipherspec
        cipher == cipherspec.suite.cipher
    IN  With(tls_hmac(cipherspec, tls.tx_seq,
                      TlsHeader(type, tls.version, Len(data)), data),
             LAMBDA mac :
        With(IF is_stream_cipher(cipher)
             THEN tls_assemble_stream(tls, data, mac, e.mem_ok)
             ELSE tls_assemble_block(tls, data, mac, e.mem_ok),
             LAMBDA plaintext :
        IF plaintext = NoBuf THEN [rc |-> ENOMEM, s |-> s]
        ELSE IF ~e.iob_ok THEN [rc |-> ENOMEM, s |-> s]
        ELSE
        With(cipher_encrypt(cipher, cipherspec.cipher_ctx, plaintext),
             LAMBDA enc :
        With(xfer_deliver_iob(
                 [s EXCEPT !.tls.tx_cipherspec.cipher_next_ctx = enc.ctx,
                           !.tls.tx_cipherspec.cipher_ctx = enc.ctx], e,
                 TlsHeader(type, tls.version, Len(plaintext)) \o enc.dst),
             LAMBDA sent :
        IF sent.rc # OK THEN sent
        ELSE [rc |-> OK,
              s |-> [sent.s EXCEPT !.tls.tx_seq = U64Inc(@)]]))))

\* rc and the state left
tls_send_plaintext(s, e, type, data) ==
    LET tls == s.tls
        cipherspec == tls.tx_cipherspec
        cipher == cipherspec.suite.cipher
    IN  With(tls_hmac(cipherspec, tls.tx_seq,
                      TlsHeader(type, tls.version, Len(data)), data),
             LAMBDA mac :
        With(IF is_stream_cipher(cipher)
             THEN tls_assemble_stream(tls, data, mac, e.mem_ok)
             ELSE tls_assemble_block(tls, data, mac, e.mem_ok),
             LAMBDA plaintext :
        IF plaintext = NoBuf THEN [rc |-> ENOMEM, s |-> s]
        ELSE IF ~e.iob_ok THEN [rc |-> ENOMEM, s |-> s]
        ELSE
        With(cipher_encrypt(cipher, cipherspec.cipher_ctx, plaintext),
             LAMBDA enc :
        With(xfer_deliver_iob(
                 [s EXCEPT !.tls.tx_cipherspec.cipher_next_ctx = enc.ctx], e,
                 TlsHeader(type, tls.version, Len(plaintext)) \o enc.dst),
             LAMBDA sent :
        IF sent.rc # OK THEN sent
        ELSE [rc |-> OK,
              s |-> [sent.s EXCEPT
                       !.tls.tx_seq = U64Inc(@),
                       !.tls.tx_cipherspec.cipher_ctx =
                           sent.s.tls.tx_cipherspec.cipher_next_ctx]]))))

(***************************************************************************)
(* Handshake messages sent                                                 *)
(***************************************************************************)
tls_send_handshake(s, e, data) ==
    tls_send_plaintext([s EXCEPT !.tls = tls_add_handshake(@, data)], e,
                       TLS_TYPE_HANDSHAKE, data)

ClientHello(tls) ==
    LET name == tls.name
        list == <<B(TLS_SERVER_NAME_HOST_NAME)>> \o U16(Len(name)) \o name
        server_name == U16(Len(list)) \o list
        extensions == U16(TLS_SERVER_NAME) \o U16(Len(server_name))
                          \o server_name
        suites == tls_cipher_suites
        cipher_suites ==
            U16(suites[1].code) \o U16(suites[2].code)
                \o U16(suites[3].code) \o U16(suites[4].code)
        body == U16(tls.version) \o tls.client_random \o <<B(0)>>
                    \o U16(Len(cipher_suites)) \o cipher_suites
                    \o <<B(1), B(0)>>
                    \o U16(Len(extensions)) \o extensions
    IN  TypeLength(TLS_CLIENT_HELLO, Len(body)) \o body

tls_send_client_hello(s, e) == tls_send_handshake(s, e, ClientHello(s.tls))

have_client_certificate(s) == Len(s.client_certificate) > 0

ClientCertificate(s) ==
    LET certificates ==
            IF have_client_certificate(s)
            THEN tls_set_uint24(Len(s.client_certificate))
                     \o s.client_certificate
            ELSE <<>>
        body == tls_set_uint24(Len(certificates)) \o certificates
    IN  TypeLength(TLS_CERTIFICATE, Len(body)) \o body

tls_send_certificate(s, e) ==
    IF have_client_certificate(s) /\ x509_parse(s.client_certificate).rc # OK
    THEN [rc |-> x509_parse(s.client_certificate).rc, s |-> s]
    ELSE With(IF have_client_certificate(s)
              THEN tls_tx_resume(
                       [s EXCEPT !.tls.verify_pubkey = "rsa",
                                 !.tls.tx_pending =
                                     @ \cup {TLS_TX_CERTIFICATE_VERIFY}])
              ELSE s,
              LAMBDA s1 :
         IF ~e.mem_ok THEN [rc |-> ENOMEM, s |-> s1]
         ELSE tls_send_handshake(s1, e, ClientCertificate(s)))

tls_send_client_key_exchange(s, e) ==
    With(pubkey_encrypt(s.tls.tx_cipherspec_pending.suite.pubkey,
                        s.tls.tx_cipherspec_pending.pubkey_ctx,
                        s.tls.pre_master_secret, e),
         LAMBDA enc :
    IF enc.rc # OK THEN [rc |-> enc.rc, s |-> s]
    ELSE tls_send_handshake(
             s, e,
             TypeLength(TLS_CLIENT_KEY_EXCHANGE, 2 + Len(enc.out))
                 \o U16(enc.len) \o enc.out))

\* the (hash, signature) identifier of that pair, or NoBuf
tls_signature_hash_algorithm(pubkey, digest) ==
    IF pubkey = "rsa" /\ digest = "sha256"
    THEN <<B(TLS_SHA256_ALGORITHM), B(TLS_RSA_ALGORITHM)>>
    ELSE NoBuf

tls_send_certificate_verify(s, e) ==
    LET tls == s.tls
        digest == tls.handshake_digest
        pubkey == tls.verify_pubkey
    IN  With(IF tls.version >= TLS_VERSION_TLS_1_2
             THEN tls_signature_hash_algorithm(pubkey, digest)
             ELSE NoBuf,
             LAMBDA sig_hash :
        With((IF sig_hash = NoBuf THEN <<>> ELSE sig_hash)
                 \o U16(RsaModulusLen)
                 \o Blob(<<"rsa_sign", "client_private_key", digest,
                           Id(tls_verify_handshake(tls))>>, RsaModulusLen),
             LAMBDA body :
        IF ~e.key_ok THEN [rc |-> EINVAL, s |-> s]
        ELSE IF tls.version >= TLS_VERSION_TLS_1_2 /\ sig_hash = NoBuf
        THEN [rc |-> ENOTSUP, s |-> s]
        ELSE tls_send_handshake(
                 s, e, TypeLength(TLS_CERTIFICATE_VERIFY, Len(body)) \o body)))

tls_send_change_cipher(s, e) ==
    tls_send_plaintext(s, e, TLS_TYPE_CHANGE_CIPHER, <<B(1)>>)

\* sizeof ( finished.verify_data )
VerifyDataLen == 12

ClientFinished(tls) ==
    TypeLength(TLS_FINISHED, VerifyDataLen)
        \o tls_prf(tls.version, tls.master_secret, VerifyDataLen,
                   Label("client finished", 15) \o tls_verify_handshake(tls))

tls_send_finished(s, e) == tls_send_handshake(s, e, ClientFinished(s.tls))

(***************************************************************************)
(* Records received                                                        *)
(***************************************************************************)
\* the change of the receive cipher whatever the record carries
tls_new_change_cipher_any(s, e, data) ==
    With(tls_change_cipher(s.tls.rx_cipherspec_pending, s.tls.rx_cipherspec),
         LAMBDA chg :
            IF chg.rc # OK THEN [rc |-> chg.rc, s |-> s]
            ELSE [rc |-> OK,
                  s |-> [s EXCEPT !.tls.rx_cipherspec_pending = chg.pending,
                                  !.tls.rx_cipherspec = chg.active,
                                  !.tls.rx_seq = U64Max]])

\* the change of the receive cipher with rx_seq set to 0 right away
tls_new_change_cipher_seq0(s, e, data) ==
    IF Len(data) # 1 \/ data[1] # B(1) THEN [rc |-> EINVAL, s |-> s]
    ELSE With(tls_change_cipher(s.tls.rx_cipherspec_pending,
                                s.tls.rx_cipherspec),
              LAMBDA chg :
         IF chg.rc # OK THEN [rc |-> chg.rc, s |-> s]
         ELSE [rc |-> OK,
               s |-> [s EXCEPT !.tls.rx_cipherspec_pending = chg.pending,
                               !.tls.rx_cipherspec = chg.active,
                               !.tls.rx_seq = U64Zero]])

tls_new_change_cipher(s, e, data) ==
    IF Len(data) # 1 \/ data[1] # B(1) THEN [rc |-> EINVAL, s |-> s]
    ELSE With(tls_change_cipher(s.tls.rx_cipherspec_pending,
                                s.tls.rx_cipherspec),
              LAMBDA chg :
         IF chg.rc # OK THEN [rc |-> chg.rc, s |-> s]
         ELSE [rc |-> OK,
               s |-> [s EXCEPT !.tls.rx_cipherspec_pending = chg.pending,
                               !.tls.rx_cipherspec = chg.active,
                               !.tls.rx_seq = U64Max]])

\* Alert with the level looked at before the length
tls_new_alert_level_first(s, e, data) ==
    IF Len(data) >= 1 /\ data[1] = B(TLS_ALERT_WARNING) THEN [rc |-> OK, s |-> s]
    ELSE IF Len(data) >= 1 /\ data[1] = B(TLS_ALERT_FATAL)
    THEN [rc |-> EPERM, s |-> s]
    ELSE IF Len(data) # 2 THEN [rc |-> EINVAL, s |-> s]
    ELSE [rc |-> EIO, s |-> s]

tls_new_alert(s, e, data) ==
    IF Len(data) # 2 THEN [rc |-> EINVAL, s |-> s]
    ELSE IF data[1] = B(TLS_ALERT_WARNING) THEN [rc |-> OK, s |-> s]
    ELSE IF data[1] = B(TLS_ALERT_FATAL) THEN [rc |-> EPERM, s |-> s]
    ELSE [rc |-> EIO, s |-> s]

\* offset of session_id in a Server Hello: version, random, session_id_len
HelloALen == 35

\* cipher_suite and compression_method after the session id
HelloBLen == 3

\* the session after the version, the digest and the server random of a
\* Server Hello have been taken over
tls_new_server_hello_fields(tls, data) ==
    LET version == N16(SubSeq(data, 1, 2))
    IN  [tls EXCEPT
           !.version = version,
           !.handshake_digest =
               IF version < TLS_VERSION_TLS_1_2 THEN "md5_sha1" ELSE @,
           !.handshake_ctx =
               IF version < TLS_VERSION_TLS_1_2
               THEN "handshake_md5_sha1_ctx" ELSE @,
           !.server_random = SubSeq(data, 3, 2 + RandomLen)]

\* Server Hello with the version compared to the highest version supported
tls_new_server_hello_max(s, e, data) ==
    LET len == Len(data)
        session_id_len == Val(data[HelloALen])
        end == HelloALen + session_id_len + HelloBLen
        version == N16(SubSeq(data, 1, 2))
        cipher_suite == N16(SubSeq(data, HelloALen + session_id_len + 1,
                                   HelloALen + session_id_len + 2))
    IN  IF len < HelloALen \/ end > len THEN [rc |-> EINVAL, s |-> s]
        ELSE IF version < TLS_VERSION_TLS_1_0 THEN [rc |-> ENOTSUP, s |-> s]
        ELSE IF version > TLS_VERSION_TLS_1_2 THEN [rc |-> EPROTO, s |-> s]
        ELSE With(tls_select_cipher(
                      tls_new_server_hello_fields(s.tls, data),
                      cipher_suite, e),
                  LAMBDA sel :
             IF sel.rc # OK THEN [rc |-> sel.rc, s |-> [s EXCEPT !.tls = sel.tls]]
             ELSE With(tls_generate_keys(tls_generate_master_secret(sel.tls)),
                       LAMBDA keys :
                  [rc |-> keys.rc, s |-> [s EXCEPT !.tls = keys.tls]]))

tls_new_server_hello(s, e, data) ==
    LET len == Len(data)
        session_id_len == Val(data[HelloALen])
        end == HelloALen + session_id_len + HelloBLen
        version == N16(SubSeq(data, 1, 2))
        cipher_suite == N16(SubSeq(data, HelloALen + session_id_len + 1,
                                   HelloALen + session_id_len + 2))
    IN  IF len < HelloALen \/ end > len THEN [rc |-> EINVAL, s |-> s]
        ELSE IF version < TLS_VERSION_TLS_1_0 THEN [rc |-> ENOTSUP, s |-> s]
        ELSE IF version > s.tls.version THEN [rc |-> EPROTO, s |-> s]
        ELSE With(tls_select_cipher(
                      tls_new_server_hello_fields(s.tls, data),
                      cipher_suite, e),
                  LAMBDA sel :
             IF sel.rc # OK THEN [rc |-> sel.rc, s |-> [s EXCEPT !.tls = sel.tls]]
             ELSE With(tls_generate_keys(tls_generate_master_secret(sel.tls)),
                       LAMBDA keys :
                  [rc |-> keys.rc, s |-> [s EXCEPT !.tls = keys.tls]]))

\* rc, the certificate parsed and the rest of the list
tls_parse_next(current) ==
    LET len == tls_uint24(SubSeq(current, 1, 3))
    IN  IF Len(current) = 0
        THEN [rc |-> EACCES_INCOMPLETE, cert |-> NULL, next |-> current]
        ELSE IF Len(current) < 3 \/ 3 + len > Len(current)
        THEN [rc |-> EINVAL, cert |-> NULL, next |-> current]
        ELSE With(x509_parse(SubSeq(current, 4, 3 + len)),
                  LAMBDA parsed :
             [rc |-> parsed.rc, cert |-> parsed.cert,
              next |-> Drop(current, 3 + len)])

\* x509_validate_chain over the list: rc and the first certificate
x509_validate_chain(certificates) ==
    With(tls_parse_next(certificates),
         LAMBDA first :
    IF first.rc # OK THEN first
    ELSE IF ~first.cert.valid
    THEN [rc |-> EACCES_INCOMPLETE, cert |-> first.cert, next |-> first.next]
    ELSE first)

\* pubkey_init: rc and the context left
pubkey_init(pubkey, ctx, key, e) ==
    IF pubkey # "rsa" THEN [rc |-> OK, ctx |-> ctx]
    ELSE IF ~e.key_ok THEN [rc |-> EINVAL, ctx |-> <<"zero">>]
    ELSE [rc |-> OK, ctx |-> <<"rsa", key>>]

\* Certificate taken without the comparison of the subject name
tls_new_certificate_unnamed(s, e, data) ==
    LET tls == s.tls
        len == Len(data)
        elements_len == tls_uint24(SubSeq(data, 1, 3))
        cipherspec == tls.tx_cipherspec_pending
    IN  IF len < 3 \/ 3 + elements_len # len THEN [rc |-> EINVAL, s |-> s]
        ELSE With(x509_validate_chain(Drop(data, 3)),
                  LAMBDA chain :
             IF chain.rc # OK THEN [rc |-> chain.rc, s |-> s]
             ELSE With(pubkey_init(cipherspec.suite.pubkey,
                                   cipherspec.pubkey_ctx, chain.cert.key, e),
                       LAMBDA init :
                  [rc |-> init.rc,
                   s |-> [s EXCEPT !.tls.tx_cipherspec_pending.pubkey_ctx =
                                       init.ctx]]))

tls_new_certificate(s, e, data) ==
    LET tls == s.tls
        len == Len(data)
        elements_len == tls_uint24(SubSeq(data, 1, 3))
        cipherspec == tls.tx_cipherspec_pending
    IN  IF len < 3 \/ 3 + elements_len # len THEN [rc |-> EINVAL, s |-> s]
        ELSE With(x509_validate_chain(Drop(data, 3)),
                  LAMBDA chain :
             IF chain.rc # OK THEN [rc |-> chain.rc, s |-> s]
             ELSE IF Len(chain.cert.name) # Len(tls.name)
                     \/ chain.cert.name # tls.name
             THEN [rc |-> EACCES_WRONG_NAME, s |-> s]
             ELSE With(pubkey_init(cipherspec.suite.pubkey,
                                   cipherspec.pubkey_ctx, chain.cert.key, e),
                       LAMBDA init :
                  [rc |-> init.rc,
                   s |-> [s EXCEPT !.tls.tx_cipherspec_pending.pubkey_ctx =
                                       init.ctx]]))

tls_new_certificate_request(s, e, data) ==
    [rc |-> OK,
     s |-> tls_tx_resume(
               [s EXCEPT !.tls.tx_pending = @ \cup {TLS_TX_CERTIFICATE}])]

\* Server Hello Done taken whatever its body is
tls_new_server_hello_done_lax(s, e, data) ==
    [rc |-> OK,
     s |-> tls_tx_resume(
               [s EXCEPT !.tls.tx_pending =
                   @ \cup {TLS_TX_CLIENT_KEY_EXCHANGE,
                           TLS_TX_CHANGE_CIPHER, TLS_TX_FINISHED}])]

tls_new_server_hello_done(s, e, data) ==
    IF Len(data) # 0 THEN [rc |-> EINVAL, s |-> s]
    ELSE [rc |-> OK,
          s |-> tls_tx_resume(
                    [s EXCEPT !.tls.tx_pending =
                        @ \cup {TLS_TX_CLIENT_KEY_EXCHANGE,
                                TLS_TX_CHANGE_CIPHER, TLS_TX_FINISHED}])]

\* the verify_data a Finished of the server must carry
ServerVerifyData(tls) ==
    tls_prf(tls.version, tls.master_secret, VerifyDataLen,
            Label("server finished", 15) \o tls_verify_handshake(tls))

\* Finished taken without the comparison of verify_data
tls_new_finished_unverified(s, e, data) ==
    IF Len(data) # VerifyDataLen THEN [rc |-> EINVAL, s |-> s]
    ELSE [rc |-> OK,
          s |-> xfer_window_changed([s EXCEPT !.tls.tx_ready = TRUE], e)]

tls_new_finished(s, e, data) ==
    IF Len(data) # VerifyDataLen THEN [rc |-> EINVAL, s |-> s]
    ELSE IF ServerVerifyData(s.tls) # data THEN [rc |-> EPERM, s |-> s]
    ELSE [rc |-> OK,
          s |-> xfer_window_changed([s EXCEPT !.tls.tx_ready = TRUE], e)]

\* sizeof of the type and length prefix of a handshake message
HandshakeHdrLen == 4

\* the handler of one handshake message, by type
tls_handshake_dispatch(s, e, type, payload) ==
    CASE type = B(TLS_SERVER_HELLO) -> tls_new_server_hello(s, e, payload)
      [] type = B(TLS_CERTIFICATE) -> tls_new_certificate(s, e, payload)
      [] type = B(TLS_CERTIFICATE_REQUEST) ->
            tls_new_certificate_request(s, e, payload)
      [] type = B(TLS_SERVER_HELLO_DONE) ->
            tls_new_server_hello_done(s, e, payload)
      [] type = B(TLS_FINISHED) -> tls_new_finished(s, e, payload)
      [] OTHER -> [rc |-> OK, s |-> s]

\* the state after the handler when every message joins the digest
tls_new_handshake_add_all(s, type, message) ==
    [s EXCEPT !.tls = tls_add_handshake(@, message)]

\* the state after the handler: the message joins the handshake digest
\* unless it is a Hello Request
tls_new_handshake_add(s, type, message) ==
    IF type # B(TLS_HELLO_REQUEST)
    THEN [s EXCEPT !.tls = tls_add_handshake(@, message)]
    ELSE s

\* the loop that goes on to the next message after a handler has failed
RECURSIVE tls_new_handshake_lenient(_, _, _)
tls_new_handshake_lenient(s, e, data) ==
    IF Len(data) = 0 THEN [rc |-> OK, s |-> s]
    ELSE IF Len(data) < HandshakeHdrLen THEN [rc |-> EINVAL, s |-> s]
    ELSE
      LET next == HandshakeHdrLen + tls_uint24(SubSeq(data, 2, 4))
      IN  IF next > Len(data) THEN [rc |-> EINVAL, s |-> s]
          ELSE With(tls_handshake_dispatch(
                        s, e, data[1], SubSeq(data, HandshakeHdrLen + 1, next)),
                    LAMBDA r :
               tls_new_handshake_lenient(
                   tls_new_handshake_add(r.s, data[1], Take(data, next)),
                   e, Drop(data, next)))

RECURSIVE tls_new_handshake(_, _, _)
tls_new_handshake(s, e, data) ==
    IF Len(data) = 0 THEN [rc |-> OK, s |-> s]
    ELSE IF Len(data) < HandshakeHdrLen THEN [rc |-> EINVAL, s |-> s]
    ELSE
      LET next == HandshakeHdrLen + tls_uint24(SubSeq(data, 2, 4))
      IN  IF next > Len(data) THEN [rc |-> EINVAL, s |-> s]
          ELSE With(tls_handshake_dispatch(
                        s, e, data[1], SubSeq(data, HandshakeHdrLen + 1, next)),
                    LAMBDA r :
               With(tls_new_handshake_add(r.s, data[1], Take(data, next)),
                    LAMBDA s1 :
               IF r.rc # OK THEN [rc |-> r.rc, s |-> s1]
               ELSE tls_new_handshake(s1, e, Drop(data, next))))

\* the dispatch of a record with unknown types refused
tls_new_record_strict(s, e, type, data) ==
    CASE type = B(TLS_TYPE_CHANGE_CIPHER) -> tls_new_change_cipher(s, e, data)
      [] type = B(TLS_TYPE_ALERT) -> tls_new_alert(s, e, data)
      [] type = B(TLS_TYPE_HANDSHAKE) -> tls_new_handshake(s, e, data)
      [] type = B(TLS_TYPE_DATA) -> xfer_deliver_raw(s, e, data)
      [] OTHER -> [rc |-> ENOTSUP, s |-> s]

tls_new_record(s, e, type, data) ==
    CASE type = B(TLS_TYPE_CHANGE_CIPHER) -> tls_new_change_cipher(s, e, data)
      [] type = B(TLS_TYPE_ALERT) -> tls_new_alert(s, e, data)
      [] type = B(TLS_TYPE_HANDSHAKE) -> tls_new_handshake(s, e, data)
      [] type = B(TLS_TYPE_DATA) -> xfer_deliver_raw(s, e, data)
      [] OTHER -> [rc |-> OK, s |-> s]

(***************************************************************************)
(* Record decryption                                                       *)
(***************************************************************************)
\* rc, the content and the MAC carried
tls_split_stream(tls, plaintext) ==
    LET plaintext_len == Len(plaintext)
        mac_len == digest_size(tls.rx_cipherspec.suite.digest)
        content_len == plaintext_len - mac_len
    IN  IF plaintext_len < mac_len
        THEN [rc |-> EINVAL, data |-> <<>>, mac |-> <<>>]
        ELSE [rc |-> OK, data |-> Take(plaintext, content_len),
              mac |-> Drop(plaintext, content_len)]

\* the split of a block-ciphered record without the test of the padding
\* bytes
tls_split_block_unverified(tls, plaintext) ==
    LET plaintext_len == Len(plaintext)
        iv_len == IF tls.version >= TLS_VERSION_TLS_1_1
                  THEN cipher_blocksize(tls.rx_cipherspec.suite.cipher)
                  ELSE 0
        mac_len == digest_size(tls.rx_cipherspec.suite.digest)
        padding_len == Val(plaintext[plaintext_len])
        content_len == plaintext_len - iv_len - mac_len - padding_len - 1
    IN  IF plaintext_len < 1
        THEN [rc |-> EINVAL, data |-> <<>>, mac |-> <<>>]
        ELSE IF plaintext_len < iv_len + mac_len + padding_len + 1
        THEN [rc |-> EINVAL, data |-> <<>>, mac |-> <<>>]
        ELSE [rc |-> OK,
              data |-> SubSeq(plaintext, iv_len + 1, iv_len + content_len),
              mac |-> SubSeq(plaintext, iv_len + content_len + 1,
                             iv_len + content_len + mac_len)]

tls_split_block(tls, plaintext) ==
    LET plaintext_len == Len(plaintext)
        iv_len == IF tls.version >= TLS_VERSION_TLS_1_1
                  THEN cipher_blocksize(tls.rx_cipherspec.suite.cipher)
                  ELSE 0
        mac_len == digest_size(tls.rx_cipherspec.suite.digest)
        padding_len == Val(plaintext[plaintext_len])
        content_len == plaintext_len - iv_len - mac_len - padding_len - 1
        padding == Drop(plaintext, iv_len + content_len + mac_len)
    IN  IF plaintext_len < 1
        THEN [rc |-> EINVAL, data |-> <<>>, mac |-> <<>>]
        ELSE IF plaintext_len < iv_len + mac_len + padding_len + 1
        THEN [rc |-> EINVAL, data |-> <<>>, mac |-> <<>>]
        ELSE IF \E i \in 1..padding_len : padding[i] # B(padding_len)
        THEN [rc |-> EINVAL, data |-> <<>>, mac |-> <<>>]
        ELSE [rc |-> OK,
              data |-> SubSeq(plaintext, iv_len + 1, iv_len + content_len),
              mac |-> SubSeq(plaintext, iv_len + content_len + 1,
                             iv_len + content_len + mac_len)]

\* rc and the state left, for the record held in rx_header and rx_data
tls_new_ciphertext(s, e, tlshdr, ciphertext) ==
    LET tls == s.tls
        cipherspec == tls.rx_cipherspec
        cipher == cipherspec.suite.cipher
    IN  IF ~e.mem_ok THEN [rc |-> ENOMEM, s |-> s]
        ELSE
        With(cipher_decrypt(cipher, cipherspec.cipher_ctx, ciphertext),
             LAMBDA dec :
        With([s EXCEPT !.tls.rx_cipherspec.cipher_ctx = dec.ctx],
             LAMBDA s1 :
        With(IF is_stream_cipher(cipher)
             THEN tls_split_stream(tls, dec.dst)
             ELSE tls_split_block(tls, dec.dst),
             LAMBDA split :
        IF split.rc # OK THEN [rc |-> split.rc, s |-> s1]
        ELSE IF split.mac # tls_hmac(cipherspec, tls.rx_seq,
                                     SubSeq(tlshdr, 1, 3)
                                         \o U16(Len(split.data)),
                                     split.data)
        THEN [rc |-> split.rc, s |-> s1]
        ELSE tls_new_record(s1, e, tlshdr[1], split.data))))

(***************************************************************************)
(* Plaintext stream operations                                             *)
(***************************************************************************)
tls_plainstream_window(s) ==
    IF ~s.tls.tx_ready THEN 0 ELSE xfer_window(s)

\* deliver without the test of tx_ready
tls_plainstream_deliver_unguarded(s, e, iobuf) ==
    tls_send_plaintext(s, e, TLS_TYPE_DATA, iobuf)

tls_plainstream_deliver(s, e, iobuf) ==
    IF ~s.tls.tx_ready THEN [rc |-> ENOTCONN, s |-> s]
    ELSE tls_send_plaintext(s, e, TLS_TYPE_DATA, iobuf)

(***************************************************************************)
(* Ciphertext stream operations                                            *)
(***************************************************************************)
\* malloc ( len ): a buffer of len cells that hold nothing yet
Malloc(len) == [i \in 1..len |-> <<"uninit">>]

\* memcpy ( buf + off, data, Len ( data ) )
Memcpy(buf, off, data) ==
    [i \in 1..Len(buf) |->
        IF i > off /\ i <= off + Len(data) THEN data[i - off] ELSE buf[i]]

tls_newdata_process_header(s, e) ==
    LET data_len == N16(SubSeq(s.tls.rx_header, 4, 5))
    IN  IF ~e.mem_ok THEN [rc |-> ENOMEM, s |-> s]
        ELSE [rc |-> OK,
              s |-> [s EXCEPT !.tls.rx_data = Malloc(data_len),
                              !.tls.rx_state = TLS_RX_DATA]]

\* the record processed without the return to the header state
tls_newdata_process_data_held(s, e) ==
    With(tls_new_ciphertext(s, e, s.tls.rx_header, s.tls.rx_data),
         LAMBDA r :
    IF r.rc # OK THEN r
    ELSE [rc |-> OK,
          s |-> [r.s EXCEPT !.tls.rx_seq = U64Inc(@),
                            !.tls.rx_data = NoBuf]])

\* the record counted whether its processing failed or not
tls_newdata_process_data_eager(s, e) ==
    With(tls_new_ciphertext(s, e, s.tls.rx_header, s.tls.rx_data),
         LAMBDA r :
    IF r.rc # OK THEN [rc |-> r.rc, s |-> [r.s EXCEPT !.tls.rx_seq = U64Inc(@)]]
    ELSE [rc |-> OK,
          s |-> [r.s EXCEPT !.tls.rx_seq = U64Inc(@),
                            !.tls.rx_data = NoBuf,
                            !.tls.rx_state = TLS_RX_HEADER]])

tls_newdata_process_data(s, e) ==
    With(tls_new_ciphertext(s, e, s.tls.rx_header, s.tls.rx_data),
         LAMBDA r :
    IF r.rc # OK THEN r
    ELSE [rc |-> OK,
          s |-> [r.s EXCEPT !.tls.rx_seq = U64Inc(@),
                            !.tls.rx_data = NoBuf,
                            !.tls.rx_state = TLS_RX_HEADER]])

\* the copy of one fragment into the buffer of the current state
tls_cipherstream_copy(s, frag) ==
    IF s.tls.rx_state = TLS_RX_HEADER
    THEN [s EXCEPT !.tls.rx_header = Memcpy(@, s.tls.rx_rcvd, frag),
                   !.tls.rx_rcvd = @ + Len(frag)]
    ELSE [s EXCEPT !.tls.rx_data = Memcpy(@, s.tls.rx_rcvd, frag),
                   !.tls.rx_rcvd = @ + Len(frag)]

RECURSIVE tls_cipherstream_deliver(_, _, _)
tls_cipherstream_deliver(s, e, iobuf) ==
    IF Len(iobuf) = 0 THEN [rc |-> OK, s |-> s]
    ELSE
      LET tls == s.tls
          header == tls.rx_state = TLS_RX_HEADER
          buf_len == IF header THEN TlsHeaderLen
                     ELSE N16(SubSeq(tls.rx_header, 4, 5))
          room == buf_len - tls.rx_rcvd
          frag_len == IF room > Len(iobuf) THEN Len(iobuf) ELSE room
      IN  With(tls_cipherstream_copy(s, Take(iobuf, frag_len)),
               LAMBDA s1 :
          IF s1.tls.rx_rcvd # buf_len
          THEN tls_cipherstream_deliver(s1, e, Drop(iobuf, frag_len))
          ELSE With(IF header THEN tls_newdata_process_header(s1, e)
                    ELSE tls_newdata_process_data(s1, e),
                    LAMBDA r :
               IF r.rc # OK THEN [rc |-> r.rc, s |-> tls_close(r.s, r.rc)]
               ELSE tls_cipherstream_deliver(
                        [r.s EXCEPT !.tls.rx_rcvd = 0], e,
                        Drop(iobuf, frag_len))))

(***************************************************************************)
(* Controlling process                                                     *)
(***************************************************************************)
\* the chain with its last two branches in the other order
TxOrderFinishedFirst ==
    <<TLS_TX_CLIENT_HELLO, TLS_TX_CERTIFICATE, TLS_TX_CLIENT_KEY_EXCHANGE,
      TLS_TX_CERTIFICATE_VERIFY, TLS_TX_FINISHED, TLS_TX_CHANGE_CIPHER>>

\* the chain with the Client Hello as its last branch
TxOrderHelloLast ==
    <<TLS_TX_CERTIFICATE, TLS_TX_CLIENT_KEY_EXCHANGE,
      TLS_TX_CERTIFICATE_VERIFY, TLS_TX_CHANGE_CIPHER, TLS_TX_FINISHED,
      TLS_TX_CLIENT_HELLO>>

\* the first pending transmission, in the order of the if .. else if chain
TxOrder ==
    <<TLS_TX_CLIENT_HELLO, TLS_TX_CERTIFICATE, TLS_TX_CLIENT_KEY_EXCHANGE,
      TLS_TX_CERTIFICATE_VERIFY, TLS_TX_CHANGE_CIPHER, TLS_TX_FINISHED>>

FirstPending(tx_pending) ==
    TxOrder[CHOOSE i \in 1..Len(TxOrder) :
                /\ TxOrder[i] \in tx_pending
                /\ \A j \in 1..(i - 1) : TxOrder[j] \notin tx_pending]

\* the Change Cipher branch that sends the record and leaves the cipher
tls_tx_change_cipher_sent_only(s, e) == tls_send_change_cipher(s, e)

\* the Change Cipher branch: send, then change the cipher in use
tls_tx_change_cipher(s, e) ==
    With(tls_send_change_cipher(s, e),
         LAMBDA sent :
    IF sent.rc # OK THEN sent
    ELSE With(tls_change_cipher(sent.s.tls.tx_cipherspec_pending,
                                sent.s.tls.tx_cipherspec),
              LAMBDA chg :
         IF chg.rc # OK THEN [rc |-> chg.rc, s |-> sent.s]
         ELSE [rc |-> OK,
               s |-> [sent.s EXCEPT
                        !.tls.tx_cipherspec_pending = chg.pending,
                        !.tls.tx_cipherspec = chg.active,
                        !.tls.tx_seq = U64Zero]]))

\* the send of one pending transmission
tls_tx_send(s, e, bit) ==
    CASE bit = TLS_TX_CLIENT_HELLO -> tls_send_client_hello(s, e)
      [] bit = TLS_TX_CERTIFICATE -> tls_send_certificate(s, e)
      [] bit = TLS_TX_CLIENT_KEY_EXCHANGE -> tls_send_client_key_exchange(s, e)
      [] bit = TLS_TX_CERTIFICATE_VERIFY -> tls_send_certificate_verify(s, e)
      [] bit = TLS_TX_CHANGE_CIPHER -> tls_tx_change_cipher(s, e)
      [] OTHER -> tls_send_finished(s, e)

\* what follows the send: the bit is cleared, the process runs again if
\* transmissions remain; an error closes the session
tls_tx_step_done(r, bit) ==
    IF r.rc # OK THEN tls_close(r.s, r.rc)
    ELSE IF r.s.tls.tx_pending \ {bit} # {}
    THEN tls_tx_resume([r.s EXCEPT !.tls.tx_pending = @ \ {bit}])
    ELSE [r.s EXCEPT !.tls.tx_pending = @ \ {bit}]

\* the run of the process that does not look at the window
tls_tx_step_blind(s, e) ==
    IF s.tls.tx_pending = {} THEN s
    ELSE tls_tx_step_done(
             tls_tx_send(s, e, FirstPending(s.tls.tx_pending)),
             FirstPending(s.tls.tx_pending))

\* the state left by one run of the process
tls_tx_step(s, e) ==
    IF xfer_window(s) = 0 THEN s
    ELSE IF s.tls.tx_pending = {} THEN s
    ELSE tls_tx_step_done(
             tls_tx_send(s, e, FirstPending(s.tls.tx_pending)),
             FirstPending(s.tls.tx_pending))

(***************************************************************************)
(* Instantiator                                                            *)
(***************************************************************************)
\* the session add_tls leaves when it succeeds
add_tls(name) ==
    [name |-> name,
     version |-> TLS_VERSION_TLS_1_2,
     tx_cipherspec |-> tls_clear_cipher(NullCipherspec),
     tx_cipherspec_pending |-> tls_clear_cipher(NullCipherspec),
     rx_cipherspec |-> tls_clear_cipher(NullCipherspec),
     rx_cipherspec_pending |-> tls_clear_cipher(NullCipherspec),
     client_random |-> random_bytes("gmt_unix_time", 4)
                          \o random_bytes("client_random", RandomLen - 4),
     pre_master_secret |-> U16(TLS_VERSION_TLS_1_2)
                              \o random_bytes("pre_master_secret",
                                              MasterSecretLen - 2),
     server_random |-> Bytes([i \in 1..RandomLen |-> 0]),
     master_secret |-> Bytes([i \in 1..MasterSecretLen |-> 0]),
     handshake_md5_sha1_ctx |-> <<>>,
     handshake_sha256_ctx |-> <<>>,
     handshake_digest |-> "sha256",
     handshake_ctx |-> "handshake_sha256_ctx",
     verify_pubkey |-> "none",
     tx_pending |-> {TLS_TX_CLIENT_HELLO},
     tx_ready |-> FALSE,
     tx_seq |-> U64Zero,
     rx_seq |-> U64Zero,
     rx_state |-> TLS_RX_HEADER,
     rx_rcvd |-> 0,
     rx_header |-> Bytes([i \in 1..TlsHeaderLen |-> 0]),
     rx_data |-> NoBuf,
     process |-> TRUE,
     plainstream |-> IntfOpen,
     cipherstream |-> IntfOpen]

(***************************************************************************)
(* The server.  It knows the session it talks to (c), so that the records  *)
(* it builds are protected under the cipher specification and the sequence *)
(* number the client expects, unless the record is tampered with.          *)
(***************************************************************************)
ServerRandom == random_bytes("server_random", RandomLen)

Handshake(type, body) == TypeLength(type, Len(body)) \o body

ServerHello(version, cipher_suite) ==
    Handshake(TLS_SERVER_HELLO,
              U16(version) \o ServerRandom \o <<B(0)>> \o U16(cipher_suite)
                  \o <<B(0)>>)

Certificate(id) ==
    Handshake(TLS_CERTIFICATE,
              tls_set_uint24(3 + Len(Der(id)))
                  \o tls_set_uint24(Len(Der(id))) \o Der(id))

ServerHelloDone == Handshake(TLS_SERVER_HELLO_DONE, <<>>)

Finished(c) == Handshake(TLS_FINISHED, ServerVerifyData(c))

\* the record type, the plaintext and the tampering of a menu entry
ServerPlain(tag, c) ==
    LET hs(d) == [type |-> TLS_TYPE_HANDSHAKE, data |-> d, tamper |-> "none"]
        rec(t, d) == [type |-> t, data |-> d, tamper |-> "none"]
    IN  CASE tag = "flight12" ->
                hs(ServerHello(TLS_VERSION_TLS_1_2,
                               TLS_RSA_WITH_AES_256_CBC_SHA256)
                       \o Certificate("good") \o ServerHelloDone)
          [] tag = "flight11" ->
                hs(ServerHello(TLS_VERSION_TLS_1_1,
                               TLS_RSA_WITH_AES_128_CBC_SHA)
                       \o Certificate("good") \o ServerHelloDone)
          [] tag = "flight10" ->
                hs(ServerHello(TLS_VERSION_TLS_1_0,
                               TLS_RSA_WITH_AES_128_CBC_SHA)
                       \o Certificate("good") \o ServerHelloDone)
          [] tag = "sh12" ->
                hs(ServerHello(TLS_VERSION_TLS_1_2,
                               TLS_RSA_WITH_AES_128_CBC_SHA256))
          [] tag = "sh11" ->
                hs(ServerHello(TLS_VERSION_TLS_1_1,
                               TLS_RSA_WITH_AES_256_CBC_SHA))
          [] tag = "sh10" ->
                hs(ServerHello(TLS_VERSION_TLS_1_0,
                               TLS_RSA_WITH_AES_128_CBC_SHA))
          [] tag = "sh_ssl3" ->
                hs(ServerHello(TLS_VERSION_SSL_3_0,
                               TLS_RSA_WITH_AES_128_CBC_SHA))
          [] tag = "sh13" ->
                hs(ServerHello(TLS_VERSION_TLS_1_3,
                               TLS_RSA_WITH_AES_128_CBC_SHA))
          [] tag = "sh_suite" -> hs(ServerHello(TLS_VERSION_TLS_1_2, 9999))
          [] tag = "sh_short" ->
                hs(Handshake(TLS_SERVER_HELLO,
                             U16(TLS_VERSION_TLS_1_2) \o ServerRandom
                                 \o <<B(0), B(0)>>))
          [] tag = "cert" -> hs(Certificate("good"))
          [] tag = "cert_wrong_name" -> hs(Certificate("wrong_name"))
          [] tag = "cert_long_name" -> hs(Certificate("long_name"))
          [] tag = "cert_untrusted" -> hs(Certificate("untrusted"))
          [] tag = "cert_overlength" ->
                hs(Handshake(TLS_CERTIFICATE,
                             tls_set_uint24(3) \o tls_set_uint24(1)
                                 \o Der("good")))
          [] tag = "cert_request" ->
                hs(Handshake(TLS_CERTIFICATE_REQUEST, <<B(1), B(1)>>))
          [] tag = "done" -> hs(ServerHelloDone)
          [] tag = "done_body" ->
                hs(Handshake(TLS_SERVER_HELLO_DONE, <<B(0)>>))
          [] tag = "finished" -> hs(Finished(c))
          [] tag = "finished_bad" ->
                hs(Handshake(TLS_FINISHED, Blob(<<"forged">>, VerifyDataLen)))
          [] tag = "finished_long" ->
                hs(Handshake(TLS_FINISHED, ServerVerifyData(c) \o <<B(0)>>))
          [] tag = "finished_done" -> hs(Finished(c) \o ServerHelloDone)
          [] tag = "finished_bad_done" ->
                hs(Handshake(TLS_FINISHED, Blob(<<"forged">>, VerifyDataLen))
                       \o ServerHelloDone)
          [] tag = "hello_request" ->
                hs(Handshake(TLS_HELLO_REQUEST, <<>>))
          [] tag = "hs_unknown" -> hs(Handshake(99, <<B(5)>>))
          [] tag = "hs_overlength" ->
                hs(TypeLength(TLS_SERVER_HELLO_DONE, 2) \o <<B(0)>>)
          [] tag = "hs_short" -> hs(<<B(TLS_SERVER_HELLO_DONE), B(0)>>)
          [] tag = "ccs" -> rec(TLS_TYPE_CHANGE_CIPHER, <<B(1)>>)
          [] tag = "ccs_value" -> rec(TLS_TYPE_CHANGE_CIPHER, <<B(2)>>)
          [] tag = "ccs_long" -> rec(TLS_TYPE_CHANGE_CIPHER, <<B(1), B(1)>>)
          [] tag = "ccs_empty" -> rec(TLS_TYPE_CHANGE_CIPHER, <<>>)
          [] tag = "warning" ->
                rec(TLS_TYPE_ALERT, <<B(TLS_ALERT_WARNING), B(0)>>)
          [] tag = "fatal" ->
                rec(TLS_TYPE_ALERT, <<B(TLS_ALERT_FATAL), B(40)>>)
          [] tag = "alert_level3" -> rec(TLS_TYPE_ALERT, <<B(3), B(0)>>)
          [] tag = "alert_level0" -> rec(TLS_TYPE_ALERT, <<B(0), B(0)>>)
          [] tag = "warning_long" ->
                rec(TLS_TYPE_ALERT, <<B(TLS_ALERT_WARNING), B(0), B(0)>>)
          [] tag = "fatal_short" ->
                rec(TLS_TYPE_ALERT, <<B(TLS_ALERT_FATAL)>>)
          [] tag = "alert_empty" -> rec(TLS_TYPE_ALERT, <<>>)
          [] tag = "data" -> rec(TLS_TYPE_DATA, <<B(42)>>)
          [] tag = "data_mac" ->
                [type |-> TLS_TYPE_DATA, data |-> <<B(42)>>, tamper |-> "mac"]
          [] tag = "done_mac" ->
                [type |-> TLS_TYPE_HANDSHAKE, data |-> ServerHelloDone,
                 tamper |-> "mac"]
          [] tag = "data_pad_len" ->
                [type |-> TLS_TYPE_DATA, data |-> <<B(42)>>,
                 tamper |-> "pad_len"]
          [] tag = "data_pad_byte" ->
                [type |-> TLS_TYPE_DATA, data |-> <<B(42)>>,
                 tamper |-> "pad_byte"]
          [] OTHER -> rec(99, <<B(1)>>)

\* the record of that type and plaintext as the client expects it next,
\* with its MAC or its padding spoilt when tamper says so
ServerRecord(c, type, data, tamper) ==
    LET spec == c.rx_cipherspec
        cipher == spec.suite.cipher
        view == [c EXCEPT !.tx_cipherspec = c.rx_cipherspec,
                          !.tx_seq = c.rx_seq]
        mac0 == tls_hmac(spec, c.rx_seq,
                         TlsHeader(type, c.version, Len(data)), data)
        mac == IF tamper = "mac" THEN Blob(<<"forged">>, Len(mac0)) ELSE mac0
        pt0 == IF is_stream_cipher(cipher)
               THEN tls_assemble_stream(view, data, mac, TRUE)
               ELSE tls_assemble_block(view, data, mac, TRUE)
        n == Len(pt0)
        pt == IF is_stream_cipher(cipher) THEN pt0
              ELSE IF tamper = "pad_len" THEN [pt0 EXCEPT ![n] = B(255)]
              ELSE IF tamper = "pad_byte" /\ Val(pt0[n]) > 0
              THEN [pt0 EXCEPT ![n - 1] = B(Val(pt0[n]) + 1)]
              ELSE pt0
    IN  TlsHeader(type, c.version, n)
            \o cipher_encrypt(cipher, spec.cipher_ctx, pt).dst

(***************************************************************************)
(* State                                                                   *)
(***************************************************************************)
VARIABLES
    tls,                \* struct tls_session
    wire,               \* records handed to the ciphertext side, in order
    app,                \* data handed to the plaintext side, in order
    notified,           \* window changes notified to the plaintext side
    cwin,               \* the window the ciphertext side offers
    client_certificate, \* the client certificate of the platform, or <<>>
    net_in,             \* bytes of the server on their way to the client
    nrx,                \* records the server has sent
    sent,               \* the menu entry of the last record of the server
    menu                \* what this server may send

vars == <<tls, wire, app, notified, cwin, client_certificate, net_in, nrx,
          sent, menu>>

\* the state the operators work on
St ==
    [tls |-> tls, wire |-> wire, app |-> app, notified |-> notified,
     cwin |-> cwin, client_certificate |-> client_certificate]

\* the state an operator leaves becomes the next state
Becomes(s) ==
    /\ tls' = s.tls
    /\ wire' = s.wire
    /\ app' = s.app
    /\ notified' = s.notified

\* a window of the ciphertext side that is open
Window == 1500

\* what the application writes
AppData == <<B(7), B(8)>>

EnvCalm ==
    [mem_ok |-> TRUE, iob_ok |-> TRUE, tx_rc |-> OK, app_rc |-> OK,
     app_close |-> FALSE, key_ok |-> TRUE]

\* the answers of the surroundings: all well, or one thing going wrong
Env ==
    {EnvCalm,
     [EnvCalm EXCEPT !.mem_ok = FALSE],
     [EnvCalm EXCEPT !.iob_ok = FALSE],
     [EnvCalm EXCEPT !.tx_rc = EIO],
     [EnvCalm EXCEPT !.app_rc = EIO],
     [EnvCalm EXCEPT !.app_close = TRUE],
     [EnvCalm EXCEPT !.key_ok = FALSE]}

\* the servers of the model, each by what it may send as its first, second
\* ... record; the last entry stands for every later record as well.  A
\* server that answers sends only when the client has nothing left to send.
MenuFull ==
    [answers |-> TRUE,
     script |->
    << {"flight12"},
       {"ccs", "ccs_value", "ccs_long", "ccs_empty"},
       {"finished", "finished_bad", "finished_long", "finished_done",
        "finished_bad_done"},
       {"data", "data_mac", "data_pad_len", "data_pad_byte", "warning"} >> ]

MenuOld ==
    [answers |-> TRUE,
     script |->
    << {"flight10", "flight11"},
       {"ccs"},
       {"finished", "done_mac", "ccs"},
       {"data", "data_mac", "fatal"} >> ]

MenuHello ==
    [answers |-> FALSE,
     script |->
    << {"sh12", "sh11", "sh10", "sh13", "sh_ssl3", "sh_suite", "sh_short"},
       {"sh12", "sh11", "sh10", "cert", "hello_request"},
       {"done", "hs_unknown"} >> ]

MenuCertificate ==
    [answers |-> FALSE,
     script |->
    << {"sh12"},
       {"cert", "cert_wrong_name", "cert_long_name", "cert_untrusted",
        "cert_overlength"},
       {"cert_request"},
       {"done", "done_body"} >> ]

MenuStray ==
    [answers |-> FALSE,
     script |->
    << {"warning", "fatal", "alert_level3", "alert_level0", "warning_long",
        "fatal_short", "alert_empty", "unknown", "data", "ccs",
        "hello_request", "hs_unknown", "hs_overlength", "hs_short",
        "finished"},
       {"warning", "hello_request"} >> ]

Menus == {MenuFull, MenuOld, MenuHello, MenuCertificate, MenuStray}

\* records sent so far by the application that went out as ApplicationData
AppRecords == {i \in DOMAIN wire : wire[i][1] = B(TLS_TYPE_DATA)}

\* the bytes the server puts in flight for a menu entry
ServerBytes(tag) ==
    With(ServerPlain(tag, tls),
         LAMBDA p : ServerRecord(tls, p.type, p.data, p.tamper))

Init ==
    /\ tls = add_tls(ServerName)
    /\ wire = <<>>
    /\ app = <<>>
    /\ notified = 0
    /\ cwin = Window
    /\ menu \in Menus
    /\ client_certificate \in
          IF menu = MenuCertificate THEN {<<>>, Der("client")} ELSE {<<>>}
    /\ net_in = <<>>
    /\ nrx = 0
    /\ sent = "none"

(***************************************************************************)
(* Actions: the callbacks of the session and the moves of its neighbours   *)
(***************************************************************************)
\* the process runs: it is taken off the run queue, then tls_tx_step
TxStep ==
    /\ tls.process
    /\ \E e \in Env : Becomes(tls_tx_step(process_del(St), e))
    /\ UNCHANGED <<cwin, client_certificate, net_in, nrx, sent, menu>>

\* the ciphertext side opens or shuts its window
SetWindow ==
    /\ cwin' = IF cwin = 0 THEN Window ELSE 0
    /\ UNCHANGED <<tls, wire, app, notified, client_certificate, net_in, nrx,
                   sent, menu>>

\* xfer_window_changed on the ciphertext interface
CipherWindowChanged ==
    /\ tls.cipherstream.open
    /\ Becomes(tls_tx_resume(St))
    /\ UNCHANGED <<cwin, client_certificate, net_in, nrx, sent, menu>>

\* the server sends one record
ServerSend ==
    /\ nrx < MaxRx
    /\ net_in = <<>>
    /\ tls.cipherstream.open
    /\ menu.answers => tls.tx_pending = {}
    /\ \E tag \in menu.script[IF nrx < Len(menu.script) THEN nrx + 1
                              ELSE Len(menu.script)] :
          /\ net_in' = ServerBytes(tag)
          /\ sent' = tag
    /\ nrx' = nrx + 1
    /\ UNCHANGED <<tls, wire, app, notified, cwin, client_certificate, menu>>

\* xfer_deliver on the ciphertext interface: the bytes in flight arrive,
\* all of them or the record header alone
CipherDeliver ==
    /\ tls.cipherstream.open
    /\ net_in # <<>>
    /\ \E n \in {TlsHeaderLen, Len(net_in)}, e \in Env :
          /\ n <= Len(net_in)
          /\ Becomes(tls_cipherstream_deliver(St, e, Take(net_in, n)).s)
          /\ net_in' = Drop(net_in, n)
    /\ UNCHANGED <<cwin, client_certificate, nrx, sent, menu>>

\* xfer_deliver on the plaintext interface: the application writes
PlainDeliver ==
    /\ tls.plainstream.open
    /\ Cardinality(AppRecords) < MaxApp
    /\ \E e \in Env : Becomes(tls_plainstream_deliver(St, e, AppData).s)
    /\ UNCHANGED <<cwin, client_certificate, net_in, nrx, sent, menu>>

\* xfer_window on the plaintext interface: the application asks, and
\* nothing changes
PlainWindow ==
    /\ tls.plainstream.open
    /\ tls_plainstream_window(St) >= 0
    /\ UNCHANGED vars

\* intf_close on the plaintext interface
PlainClose ==
    /\ tls.plainstream.open
    /\ Becomes(tls_close(St, ECONNRESET))
    /\ UNCHANGED <<cwin, client_certificate, net_in, nrx, sent, menu>>

\* intf_close on the ciphertext interface
CipherClose ==
    /\ tls.cipherstream.open
    /\ Becomes(tls_close(St, EPIPE))
    /\ UNCHANGED <<cwin, client_certificate, net_in, nrx, sent, menu>>

Next ==
    \/ TxStep
    \/ SetWindow
    \/ CipherWindowChanged
    \/ ServerSend
    \/ CipherDeliver
    \/ PlainDeliver
    \/ PlainWindow
    \/ PlainClose
    \/ CipherClose

Spec == Init /\ [][Next]_vars

\* the ciphertext side opens or shuts its window and says so: the change
\* comes with xfer_window_changed
WindowChange ==
    /\ cwin' = IF cwin = 0 THEN Window ELSE 0
    /\ IF tls.cipherstream.open
       THEN Becomes(tls_tx_resume(St))
       ELSE UNCHANGED <<tls, wire, app, notified>>
    /\ UNCHANGED <<client_certificate, net_in, nrx, sent, menu>>

\* the moves of a session whose ciphertext side notifies every change of
\* its window
NextLive ==
    \/ TxStep
    \/ WindowChange
    \/ CipherWindowChanged
    \/ ServerSend
    \/ CipherDeliver
    \/ PlainDeliver
    \/ PlainWindow
    \/ PlainClose
    \/ CipherClose

\* a session whose server takes part in the handshake
InitLive == Init /\ menu \in {MenuFull, MenuOld, MenuCertificate}

\* the scheduler runs every process that is on its run queue
SpecLive == InitLive /\ [][NextLive]_vars /\ WF_vars(TxStep)

(***************************************************************************)
(* Properties                                                              *)
(***************************************************************************)
\* a record as its receiver opens it under the cipher specification spec:
\* the type of its header, and the content and the MAC the split gives
Opened(spec, version, record) ==
    LET cipher == spec.suite.cipher
        view == [version |-> version, rx_cipherspec |-> spec]
        dec == cipher_decrypt(cipher, spec.cipher_ctx,
                              Drop(record, TlsHeaderLen)).dst
        split == IF is_stream_cipher(cipher)
                 THEN tls_split_stream(view, dec)
                 ELSE tls_split_block(view, dec)
    IN  [type |-> record[1], rc |-> split.rc, data |-> split.data,
         mac |-> split.mac]

\* the bit the process serves: the first one set, in the order Client
\* Hello, Certificate, Client Key Exchange, Certificate Verify, Change
\* Cipher Spec, Finished
C1_First(pending) ==
    IF TLS_TX_CLIENT_HELLO \in pending THEN TLS_TX_CLIENT_HELLO
    ELSE IF TLS_TX_CERTIFICATE \in pending THEN TLS_TX_CERTIFICATE
    ELSE IF TLS_TX_CLIENT_KEY_EXCHANGE \in pending
    THEN TLS_TX_CLIENT_KEY_EXCHANGE
    ELSE IF TLS_TX_CERTIFICATE_VERIFY \in pending
    THEN TLS_TX_CERTIFICATE_VERIFY
    ELSE IF TLS_TX_CHANGE_CIPHER \in pending THEN TLS_TX_CHANGE_CIPHER
    ELSE TLS_TX_FINISHED

\* the record type and the first content byte of the record of a bit
C1_Record(bit) ==
    CASE bit = TLS_TX_CLIENT_HELLO ->
            <<B(TLS_TYPE_HANDSHAKE), B(TLS_CLIENT_HELLO)>>
      [] bit = TLS_TX_CERTIFICATE ->
            <<B(TLS_TYPE_HANDSHAKE), B(TLS_CERTIFICATE)>>
      [] bit = TLS_TX_CLIENT_KEY_EXCHANGE ->
            <<B(TLS_TYPE_HANDSHAKE), B(TLS_CLIENT_KEY_EXCHANGE)>>
      [] bit = TLS_TX_CERTIFICATE_VERIFY ->
            <<B(TLS_TYPE_HANDSHAKE), B(TLS_CERTIFICATE_VERIFY)>>
      [] bit = TLS_TX_CHANGE_CIPHER -> <<B(TLS_TYPE_CHANGE_CIPHER), B(1)>>
      [] OTHER -> <<B(TLS_TYPE_HANDSHAKE), B(TLS_FINISHED)>>

\* what one run of the process from s to t must satisfy
C1_Step(s, t) ==
    /\ Len(t.wire) >= Len(s.wire)
    /\ Len(t.wire) <= Len(s.wire) + 1
    /\ Take(t.wire, Len(s.wire)) = s.wire
    /\ s.tls.tx_pending = {} =>
          /\ t.wire = s.wire
          /\ t.tls.tx_pending = {}
          /\ ~t.tls.process
    /\ Len(t.wire) = Len(s.wire) + 1 =>
          With(Opened(s.tls.tx_cipherspec, s.tls.version,
                      t.wire[Len(t.wire)]),
               LAMBDA o :
                  /\ o.rc = OK
                  /\ Len(o.data) > 0
                  /\ <<o.type, o.data[1]>> =
                        C1_Record(C1_First(s.tls.tx_pending)))
    /\ (Len(t.wire) = Len(s.wire) + 1 /\ t.tls.cipherstream.open) =>
          /\ s.tls.tx_pending \ t.tls.tx_pending =
                {C1_First(s.tls.tx_pending)}
          /\ t.tls.process = (t.tls.tx_pending # {})
    /\ (s.tls.tx_pending # {} /\ t.tls.cipherstream.open) =>
          Len(t.wire) = Len(s.wire) + 1

\* C1: a run of the transmit process with a non-zero ciphertext window
\* emits at most one record, the one of the first bit set in tx_pending in
\* the order Client Hello, Certificate, Client Key Exchange, Certificate
\* Verify, Change Cipher Spec, Finished; when it succeeds that bit and no
\* other is cleared, and the process is scheduled again exactly when
\* tx_pending is still not empty.
C1_TxStepOneRecord ==
    \A e \in Env :
       (tls.process /\ xfer_window(St) # 0) =>
          With(tls_tx_step(process_del(St), e),
               LAMBDA t : C1_Step(St, t))

\* the process has served Change Cipher Spec and is scheduled again for
\* the Finished that is left
C1_Witness ==
    /\ tls.process
    /\ cwin # 0
    /\ tls.tx_pending = {TLS_TX_FINISHED}
    /\ Len(wire) >= 3
    /\ wire[Len(wire)][1] = B(TLS_TYPE_CHANGE_CIPHER)

\* what deliver ( ) on the plaintext side gives before the session is ready
C2_Refused(s, r) ==
    /\ r.rc = ENOTCONN
    /\ r.s.wire = s.wire
    /\ r.s.tls.tx_seq = s.tls.tx_seq
    /\ r.s.tls.tx_cipherspec = s.tls.tx_cipherspec
    /\ r.s.tls.tx_cipherspec_pending = s.tls.tx_cipherspec_pending
    /\ r.s.tls.rx_cipherspec = s.tls.rx_cipherspec
    /\ r.s.tls.rx_cipherspec_pending = s.tls.rx_cipherspec_pending

\* what deliver ( ) gives once the session is ready: never more than one
\* record, and when it succeeds one Application Data record with the bytes
C2_Sent(s, r, bytes) ==
    /\ Len(r.s.wire) >= Len(s.wire)
    /\ Len(r.s.wire) <= Len(s.wire) + 1
    /\ Take(r.s.wire, Len(s.wire)) = s.wire
    /\ r.rc = OK =>
          /\ Len(r.s.wire) = Len(s.wire) + 1
          /\ With(Opened(s.tls.tx_cipherspec, s.tls.version,
                         r.s.wire[Len(r.s.wire)]),
                  LAMBDA o :
                     /\ o.rc = OK
                     /\ o.type = B(TLS_TYPE_DATA)
                     /\ o.data = bytes)

\* C2: while tx_ready is false the window of the plaintext side is 0 and
\* deliver ( ) fails with ENOTCONN, emits no record and leaves tx_seq and
\* the cipher specifications alone; once tx_ready is true the window is
\* the window of the ciphertext side and deliver ( ) sends the bytes as
\* one Application Data record.
C2_PlainGate ==
    /\ ~tls.tx_ready =>
          /\ tls_plainstream_window(St) = 0
          /\ \A e \in Env :
                With(tls_plainstream_deliver(St, e, AppData),
                     LAMBDA r : C2_Refused(St, r))
    /\ (tls.tx_ready /\ tls.cipherstream.open) =>
          /\ tls_plainstream_window(St) = cwin
          /\ \A e \in Env :
                With(tls_plainstream_deliver(St, e, AppData),
                     LAMBDA r :
                        /\ C2_Sent(St, r, AppData)
                        /\ e = EnvCalm => r.rc = OK)

\* a session made ready by a whole handshake has sent Application Data
C2_Witness ==
    /\ tls.tx_ready
    /\ tls.tx_cipherspec.suite.cipher = "aes_cbc"
    /\ AppRecords # {}

\* both sides of the session shut down with the reason rc
Closed(c, rc) ==
    /\ c.cipherstream = [open |-> FALSE, rc |-> rc]
    /\ c.plainstream = [open |-> FALSE, rc |-> rc]

\* C3: a record whose MAC does not match is fatal: it is not dispatched,
\* and the session is closed with EPERM.
C3_MacMismatchFatal ==
    (/\ sent \in {"data_mac", "done_mac"}
     /\ net_in # <<>>
     /\ tls.cipherstream.open
     /\ tls.plainstream.open
     /\ tls.rx_cipherspec.suite.digest # "digest_null") =>
       With(tls_cipherstream_deliver(St, EnvCalm, net_in),
            LAMBDA r :
               /\ r.rc = EPERM
               /\ Closed(r.s.tls, EPERM)
               /\ r.s.app = app
               /\ r.s.tls.tx_pending = tls.tx_pending)

\* the MAC a sender puts on a record of that type and content
C4_Mac(spec, seq, version, type, data) ==
    tls_hmac(spec, seq, <<type>> \o U16(version) \o U16(Len(data)), data)

\* the run of the process that sends Change Cipher Spec, from s to t, and
\* the record sent next, from t to u
C4_Tx(s, t, u) ==
    (t.tls.cipherstream.open /\ Len(t.wire) = Len(s.wire) + 1) =>
       /\ t.tls.tx_seq = U64Zero
       /\ t.tls.tx_cipherspec = s.tls.tx_cipherspec_pending
       /\ Len(u.wire) = Len(t.wire) + 1 =>
             With(Opened(s.tls.tx_cipherspec_pending, s.tls.version,
                         u.wire[Len(u.wire)]),
                  LAMBDA o :
                     /\ o.rc = OK
                     /\ o.mac = C4_Mac(s.tls.tx_cipherspec_pending, U64Zero,
                                       s.tls.version, o.type, o.data))

\* a record of the server under the cipher specification the session holds
\* pending, with that sequence number
C4_NextRecord(c, seq) ==
    ServerRecord([c EXCEPT !.rx_cipherspec = c.rx_cipherspec_pending,
                           !.rx_seq = seq],
                 TLS_TYPE_DATA, <<B(42)>>, "none")

\* the receipt of Change Cipher Spec, from s to r.s, and of the record
\* that follows it
C4_Rx(s, r) ==
    r.rc = OK =>
       /\ r.s.tls.rx_seq = U64Zero
       /\ r.s.tls.rx_cipherspec = s.tls.rx_cipherspec_pending
       /\ With(tls_cipherstream_deliver(r.s, EnvCalm,
                                        C4_NextRecord(s.tls, U64Zero)),
               LAMBDA n : n.rc = OK /\ n.s.app = Append(s.app, <<B(42)>>))
       /\ With(tls_cipherstream_deliver(r.s, EnvCalm,
                                        C4_NextRecord(s.tls, U64Max)),
               LAMBDA n : n.s.app = s.app)

\* C4: after a Change Cipher Spec the next record in that direction is
\* protected (sent) or MAC-verified (received) with sequence number 0
\* under the cipher specification that was pending: the sender sets
\* tx_seq to 0 after the swap, the receiver sets rx_seq to 2^64 - 1 so
\* that the increment after the record gives 0.
C4_SeqRestart ==
    /\ (/\ tls.process
        /\ xfer_window(St) # 0
        /\ tls.tx_pending # {}
        /\ C1_First(tls.tx_pending) = TLS_TX_CHANGE_CIPHER) =>
          \A e \in Env :
             With(tls_tx_step(process_del(St), e),
                  LAMBDA t :
             With(tls_tx_step(process_del(t), EnvCalm),
                  LAMBDA u : C4_Tx(St, t, u)))
    /\ (tls.cipherstream.open /\ tls.rx_cipherspec_pending.suite.cipher = "aes_cbc") =>
          With(tls_new_change_cipher(St, EnvCalm, <<B(1)>>),
               LAMBDA c : c.rc = OK /\ c.s.tls.rx_seq = U64Max)
    /\ (sent = "ccs" /\ net_in # <<>> /\ tls.cipherstream.open) =>
          \A e \in Env :
             With(tls_cipherstream_deliver(St, e, net_in),
                  LAMBDA r : C4_Rx(St, r))

\* both directions have changed the cipher: the Finished of the client
\* went out with sequence number 0, and the receiver stands at 0
C4_Witness ==
    /\ sent = "ccs"
    /\ net_in = <<>>
    /\ tls.rx_cipherspec.suite.cipher = "aes_cbc"
    /\ tls.rx_seq = U64Zero
    /\ tls.tx_cipherspec.suite.cipher = "aes_cbc"
    /\ tls.tx_seq = <<0, 0, 0, 1>>

\* C5: an error returned by the record or handshake path, while received
\* ciphertext is processed, in the transmit process, or while application
\* data of the plaintext side is sent, terminates the session: both sides
\* are shut down with that error.
C5_ErrorsTerminate ==
    /\ (net_in # <<>> /\ tls.cipherstream.open /\ tls.plainstream.open) =>
          \A e \in Env :
             With(tls_cipherstream_deliver(St, e, net_in),
                  LAMBDA r : r.rc # OK => Closed(r.s.tls, r.rc))
    /\ (/\ tls.process /\ xfer_window(St) # 0 /\ tls.tx_pending # {}
        /\ tls.cipherstream.open /\ tls.plainstream.open) =>
          \A e \in Env :
             With(tls_tx_send(process_del(St), e, FirstPending(tls.tx_pending)),
                  LAMBDA r :
                     r.rc # OK =>
                        Closed(tls_tx_step(process_del(St), e).tls, r.rc))
    /\ (tls.tx_ready /\ tls.cipherstream.open /\ tls.plainstream.open) =>
          \A e \in Env :
             With(tls_plainstream_deliver(St, e, AppData),
                  LAMBDA r : r.rc # OK => Closed(r.s.tls, r.rc))

\* C6: close is terminal.  tls_close takes the process off the run queue
\* and shuts both sides with the same reason; after it no callback, the
\* rest of a callback during which the application closed the session
\* included, emits a record, schedules the process again, or changes the
\* cipher specifications, the sequence numbers or tx_pending.
C6_CloseTerminal ==
    /\ ~tls.cipherstream.open =>
          /\ ~tls.process
          /\ tls.plainstream = tls.cipherstream
    /\ (net_in # <<>> /\ tls.cipherstream.open /\ tls.plainstream.open) =>
          With(tls_cipherstream_deliver(St, [EnvCalm EXCEPT !.app_close = TRUE],
                                        net_in),
               LAMBDA r :
                  Closed(r.s.tls, ECONNRESET) =>
                     /\ ~r.s.tls.process
                     /\ r.s.wire = wire
                     /\ r.s.tls.tx_pending = tls.tx_pending
                     /\ r.s.tls.tx_seq = tls.tx_seq
                     /\ r.s.tls.rx_seq = tls.rx_seq
                     /\ r.s.tls.tx_cipherspec = tls.tx_cipherspec
                     /\ r.s.tls.tx_cipherspec_pending =
                           tls.tx_cipherspec_pending
                     /\ r.s.tls.rx_cipherspec_pending =
                           tls.rx_cipherspec_pending)

\* the version a Server Hello of the menu carries
C7_Version(tag) ==
    CASE tag = "sh11" -> TLS_VERSION_TLS_1_1
      [] tag = "sh10" -> TLS_VERSION_TLS_1_0
      [] tag = "sh13" -> TLS_VERSION_TLS_1_3
      [] tag = "sh_ssl3" -> TLS_VERSION_SSL_3_0
      [] OTHER -> TLS_VERSION_TLS_1_2

\* a whole Server Hello of the server is about to be processed
C7_HelloInFlight ==
    /\ sent \in {"sh12", "sh11", "sh10", "sh13", "sh_ssl3", "sh_suite"}
    /\ net_in # <<>>
    /\ tls.cipherstream.open
    /\ tls.plainstream.open

\* the version the Client Hello on the wire advertises
C7_Advertised == N16(SubSeq(wire[1], TlsHeaderLen + HandshakeHdrLen + 1,
                            TlsHeaderLen + HandshakeHdrLen + 2))

\* what the receipt of a Server Hello with version v gives, when versions
\* above limit are an illegal upgrade
C7_Checked(r, v, limit) ==
    IF v < TLS_VERSION_TLS_1_0
    THEN r.rc = ENOTSUP /\ Closed(r.s.tls, ENOTSUP)
            /\ r.s.tls.version = tls.version
    ELSE IF v > limit
    THEN r.rc = EPROTO /\ Closed(r.s.tls, EPROTO)
            /\ r.s.tls.version = tls.version
    ELSE r.s.tls.version = v

\* C7 as claimed: a Server Hello with a version below TLS 1.0 is rejected
\* with ENOTSUP, one with a version above the advertised version with
\* EPROTO, both leaving the version alone and closing the session;
\* otherwise the version of the session becomes the version received.
C7_AdvertisedVersion ==
    (C7_HelloInFlight /\ wire # <<>>) =>
       With(tls_cipherstream_deliver(St, EnvCalm, net_in),
            LAMBDA r : C7_Checked(r, C7_Version(sent), C7_Advertised))

\* C7: a Server Hello with a version below TLS 1.0 is rejected with
\* ENOTSUP, one with a version above the version the session holds (the
\* advertised version until a Server Hello has lowered it) with EPROTO,
\* both leaving the version alone and closing the session; otherwise the
\* version of the session becomes the version received.
C7_CurrentVersion ==
    C7_HelloInFlight =>
       With(tls_cipherstream_deliver(St, EnvCalm, net_in),
            LAMBDA r : C7_Checked(r, C7_Version(sent), tls.version))

\* a second Server Hello asked for TLS 1.2 after the first had lowered the
\* session to TLS 1.1, and was rejected
C7_Witness ==
    /\ sent = "sh12"
    /\ net_in = <<>>
    /\ wire # <<>>
    /\ tls.version = TLS_VERSION_TLS_1_1
    /\ Closed(tls, EPROTO)

\* one whole record of the server is about to be processed: all of it is
\* in flight, or its header has arrived and its body is in flight
RecordInFlight ==
    /\ net_in # <<>>
    /\ tls.cipherstream.open
    /\ tls.plainstream.open
    /\ tls.rx_rcvd = 0
    /\ IF tls.rx_state = TLS_RX_HEADER
       THEN /\ Len(net_in) >= TlsHeaderLen
            /\ N16(SubSeq(net_in, 4, 5)) = Len(net_in) - TlsHeaderLen
       ELSE N16(SubSeq(tls.rx_header, 4, 5)) = Len(net_in)

\* that record, header and body
InFlight ==
    IF tls.rx_state = TLS_RX_HEADER THEN net_in ELSE tls.rx_header \o net_in

\* the record in flight carries the MAC its receiver expects
MacHolds(o) ==
    /\ o.rc = OK
    /\ o.mac = C4_Mac(tls.rx_cipherspec, tls.rx_seq, tls.version, o.type,
                      o.data)

\* the opened record is a handshake record that starts with a Finished of
\* 12 bytes
C8_IsFinished(o) ==
    /\ MacHolds(o)
    /\ o.type = B(TLS_TYPE_HANDSHAKE)
    /\ Len(o.data) >= HandshakeHdrLen + VerifyDataLen
    /\ Take(o.data, HandshakeHdrLen) = TypeLength(TLS_FINISHED, VerifyDataLen)

\* PRF ( master_secret, "server finished", digest of the handshake so far )
C8_Expected ==
    tls_prf(tls.version, tls.master_secret, VerifyDataLen,
            Label("server finished", 15)
                \o digest_final(tls.handshake_digest, handshake_ctx(tls)))

\* the receipt of the record o, which leaves r
C8_Receipt(o, r, e) ==
    LET verify_data == SubSeq(o.data, HandshakeHdrLen + 1,
                              HandshakeHdrLen + VerifyDataLen)
    IN  /\ (~tls.tx_ready /\ r.s.tls.tx_ready) =>
              /\ C8_IsFinished(o)
              /\ verify_data = C8_Expected
              /\ r.s.notified = notified + 1
        /\ (C8_IsFinished(o) /\ e.mem_ok /\ verify_data # C8_Expected) =>
              /\ r.rc = EPERM
              /\ Closed(r.s.tls, EPERM)
              /\ r.s.tls.tx_ready = tls.tx_ready
              /\ r.s.notified = notified
        /\ (C8_IsFinished(o) /\ e.mem_ok /\ verify_data = C8_Expected) =>
              /\ r.s.tls.tx_ready
              /\ r.s.notified = notified + 1
        /\ tls.tx_ready => r.s.tls.tx_ready

\* C8: tx_ready is set only by a Finished of the server whose 12 bytes are
\* PRF ( master_secret, "server finished", digest of the handshake before
\* this Finished joins it ); a mismatch is rejected with EPERM, closes the
\* session and leaves tx_ready as it was; when the Finished is accepted
\* the plaintext side is told of a window change; tx_ready never goes back
\* to false.
C8_TxReady ==
    /\ [](RecordInFlight =>
             \A e \in Env :
                With(tls_cipherstream_deliver(St, e, net_in),
                     LAMBDA r :
                        C8_Receipt(Opened(tls.rx_cipherspec, tls.version,
                                          InFlight), r, e)))
    /\ [][/\ tls.tx_ready => tls'.tx_ready
          /\ (~tls.tx_ready /\ tls'.tx_ready) =>
                /\ net_in # <<>>
                /\ net_in' # net_in
                /\ sent \in {"finished", "finished_done"}
                /\ notified' = notified + 1]_vars

\* a Finished at the end of a whole handshake has made the session ready
C8_Witness ==
    /\ tls.tx_ready
    /\ notified = 1
    /\ sent = "finished_done"
    /\ tls.rx_cipherspec.suite.cipher = "aes_cbc"
    /\ tls.cipherstream.open

\* the whole handshake messages a record content starts with, in order
RECURSIVE C9_Messages(_)
C9_Messages(data) ==
    IF Len(data) < HandshakeHdrLen THEN <<>>
    ELSE IF HandshakeHdrLen + tls_uint24(SubSeq(data, 2, 4)) > Len(data)
    THEN <<>>
    ELSE <<Take(data, HandshakeHdrLen + tls_uint24(SubSeq(data, 2, 4)))>>
            \o C9_Messages(
                   Drop(data, HandshakeHdrLen + tls_uint24(SubSeq(data, 2, 4))))

\* the concatenation of the messages, without the Hello Requests
RECURSIVE C9_Concat(_)
C9_Concat(msgs) ==
    IF msgs = <<>> THEN <<>>
    ELSE (IF Head(msgs)[1] = B(TLS_HELLO_REQUEST) THEN <<>> ELSE Head(msgs))
            \o C9_Concat(Tail(msgs))

\* from session c to session d the transcript grew by x, and by nothing else
C9_Grew(c, d, x) ==
    /\ d.handshake_sha256_ctx = c.handshake_sha256_ctx \o x
    /\ d.handshake_md5_sha1_ctx = c.handshake_md5_sha1_ctx \o x

\* what the transcript holds in d beyond what it holds in c
C9_Tail(c, d) == Drop(d.handshake_sha256_ctx, Len(c.handshake_sha256_ctx))

\* the receipt of the record o, which leaves r
C9_Received(o, r, e) ==
    IF MacHolds(o) /\ o.type = B(TLS_TYPE_HANDSHAKE) /\ e.mem_ok
    THEN \E k \in 0..Len(C9_Messages(o.data)) :
            /\ C9_Grew(tls, r.s.tls,
                       C9_Concat(SubSeq(C9_Messages(o.data), 1, k)))
            /\ r.rc = OK =>
                  /\ k = Len(C9_Messages(o.data))
                  /\ Len(C9_Concat(C9_Messages(o.data)))
                        + Len(SelectSeq(C9_Messages(o.data),
                                 LAMBDA m : m[1] = B(TLS_HELLO_REQUEST)))
                             * HandshakeHdrLen
                        = Len(o.data)
            /\ Len(C9_Messages(o.data)) >= 1 => k >= 1
    ELSE C9_Grew(tls, r.s.tls, <<>>)

\* one run of the process, which leaves t
C9_Sent(t) ==
    /\ C9_Grew(tls, t.tls, C9_Tail(tls, t.tls))
    /\ IF Len(t.wire) = Len(wire) + 1
       THEN With(Opened(tls.tx_cipherspec, tls.version, t.wire[Len(t.wire)]),
                 LAMBDA o :
                    /\ o.rc = OK
                    /\ C9_Tail(tls, t.tls) =
                          IF o.type = B(TLS_TYPE_HANDSHAKE) THEN o.data
                          ELSE <<>>
                    /\ C1_First(tls.tx_pending) = TLS_TX_FINISHED =>
                          o.data = TypeLength(TLS_FINISHED, VerifyDataLen)
                             \o tls_prf(tls.version, tls.master_secret,
                                        VerifyDataLen,
                                        Label("client finished", 15)
                                           \o digest_final(
                                                  tls.handshake_digest,
                                                  handshake_ctx(tls))))
       ELSE \/ C9_Tail(tls, t.tls) = <<>>
            \/ /\ ~t.tls.cipherstream.open
               /\ C9_Messages(C9_Tail(tls, t.tls)) = <<C9_Tail(tls, t.tls)>>
               /\ C9_Tail(tls, t.tls)[1] =
                     C1_Record(C1_First(tls.tx_pending))[2]

\* C9: the handshake transcript is the concatenation, in order, of every
\* handshake message sent and every handshake message received, without
\* the Hello Requests and with the messages of unknown type and the
\* messages the session rejects; a digest taken of it leaves it as it is.
\* Step by step: a run of the process adds the one message it hands to the
\* record layer (a message whose send fails closes the session), the
\* receipt of a handshake record adds its messages up to and with the one
\* that is rejected, and nothing else adds or removes anything.
C9_Transcript ==
    /\ RecordInFlight =>
          \A e \in Env :
             With(tls_cipherstream_deliver(St, e, net_in),
                  LAMBDA r :
                     C9_Received(Opened(tls.rx_cipherspec, tls.version,
                                        InFlight), r, e))
    /\ (tls.process /\ xfer_window(St) # 0) =>
          \A e \in Env :
             With(tls_tx_step(process_del(St), e), LAMBDA t : C9_Sent(t))
    /\ \A e \in Env :
          With(tls_plainstream_deliver(St, e, AppData),
               LAMBDA r : C9_Grew(tls, r.s.tls, <<>>))
    /\ C9_Grew(tls, tls_close(St, EPIPE).tls, <<>>)

\* a message of unknown type has joined a transcript that holds the
\* Client Hello sent before it
C9_Witness ==
    /\ sent = "hs_unknown"
    /\ net_in = <<>>
    /\ wire # <<>>
    /\ tls.cipherstream.open
    /\ Len(tls.handshake_sha256_ctx) > Len(wire[1])
    /\ Drop(tls.handshake_sha256_ctx, Len(tls.handshake_sha256_ctx) - 5) =
          Handshake(99, <<B(5)>>)

\* Alert payloads: none, one, two and three bytes, of every level 0 .. 3
C10_Payloads ==
    {<<>>}
       \cup {<<B(l)>> : l \in 0..3}
       \cup {<<B(l), B(d)>> : l \in 0..3, d \in {0, 40}}
       \cup {<<B(l), B(d), B(0)>> : l \in 0..3, d \in {0, 40}}

\* what an Alert of that payload must give
C10_Rc(data) ==
    IF Len(data) # 2 THEN EINVAL
    ELSE IF Val(data[1]) = TLS_ALERT_WARNING THEN OK
    ELSE IF Val(data[1]) = TLS_ALERT_FATAL THEN EPERM
    ELSE EIO

\* the session c with what the receipt of one record always moves left out
C10_Kept(c) ==
    [c EXCEPT !.rx_seq = U64Zero, !.rx_state = TLS_RX_HEADER, !.rx_rcvd = 0,
              !.rx_header = <<>>, !.rx_data = NoBuf,
              !.rx_cipherspec.cipher_ctx = NULL]

\* the receipt of the Alert record o, which leaves r
C10_Receipt(o, r) ==
    /\ r.rc = C10_Rc(o.data)
    /\ IF C10_Rc(o.data) = OK
       THEN /\ C10_Kept(r.s.tls) = C10_Kept(tls)
            /\ r.s.tls.rx_seq = U64Inc(tls.rx_seq)
            /\ r.s.wire = wire
            /\ r.s.app = app
       ELSE Closed(r.s.tls, C10_Rc(o.data))

\* C10: an Alert of exactly 2 bytes with level 1 (warning) is ignored and
\* the session stays open; with level 2 (fatal) it closes the session with
\* EPERM; with any other level it closes the session with EIO; an Alert
\* whose payload is not 2 bytes long is rejected with EINVAL whatever its
\* level.
C10_Alert ==
    /\ \A data \in C10_Payloads :
          tls_new_alert(St, EnvCalm, data) = [rc |-> C10_Rc(data), s |-> St]
    /\ RecordInFlight =>
          With(Opened(tls.rx_cipherspec, tls.version, InFlight),
               LAMBDA o :
                  (/\ MacHolds(o)
                   /\ o.type = B(TLS_TYPE_ALERT)
                   /\ Len(o.data) > 0) =>
                     With(tls_cipherstream_deliver(St, EnvCalm, net_in),
                          LAMBDA r : C10_Receipt(o, r)))

\* an Alert of level 3 has closed the session with EIO
C10_Witness ==
    /\ sent = "alert_level3"
    /\ net_in = <<>>
    /\ Closed(tls, EIO)

\* record types and handshake types the session has no handler for
C11_UnknownRecordTypes == {B(0), B(24), B(99)}

C11_UnknownHandshakeTypes ==
    {B(TLS_CLIENT_HELLO), B(TLS_CLIENT_KEY_EXCHANGE), B(99)}

\* the session c with the transcript and what the receipt of one record
\* always moves left out
C11_Kept(c) ==
    [C10_Kept(c) EXCEPT !.handshake_sha256_ctx = <<>>,
                        !.handshake_md5_sha1_ctx = <<>>]

\* every message of the content has a type without a handler
C11_AllUnknown(data) ==
    /\ C9_Messages(data) # <<>>
    /\ C9_Concat(C9_Messages(data)) = data
    /\ \A i \in 1..Len(C9_Messages(data)) :
          C9_Messages(data)[i][1] \in C11_UnknownHandshakeTypes

\* the receipt of the record o, which leaves r
C11_Receipt(o, r) ==
    /\ r.rc = OK
    /\ r.s.tls.cipherstream.open
    /\ r.s.tls.plainstream.open
    /\ r.s.tls.rx_seq = U64Inc(tls.rx_seq)
    /\ C11_Kept(r.s.tls) = C11_Kept(tls)
    /\ C9_Grew(tls, r.s.tls,
               IF o.type = B(TLS_TYPE_HANDSHAKE) THEN o.data ELSE <<>>)
    /\ r.s.wire = wire
    /\ r.s.app = app
    /\ r.s.notified = notified

\* C11: a received record of unknown type and a handshake message of
\* unknown type give no error and leave the session open; nothing of the
\* session changes but rx_seq, which goes up by one, and, for the
\* handshake message, the transcript, which the message joins: no bit of
\* tx_pending, no cipher specification, not the version, not tx_ready.
C11_UnknownIgnored ==
    /\ \A type \in C11_UnknownRecordTypes :
          tls_new_record(St, EnvCalm, type, AppData) = [rc |-> OK, s |-> St]
    /\ \A type \in C11_UnknownHandshakeTypes :
          With(tls_new_handshake(St, EnvCalm, <<type>> \o tls_set_uint24(1)
                                            \o <<B(5)>>),
               LAMBDA r :
                  /\ r.rc = OK
                  /\ C11_Kept(r.s.tls) = C11_Kept(tls)
                  /\ r.s.tls.rx_seq = tls.rx_seq
                  /\ r.s.tls.rx_cipherspec = tls.rx_cipherspec
                  /\ C9_Grew(tls, r.s.tls,
                             <<type>> \o tls_set_uint24(1) \o <<B(5)>>)
                  /\ r.s.wire = wire
                  /\ r.s.app = app
                  /\ r.s.notified = notified)
    /\ RecordInFlight =>
          With(Opened(tls.rx_cipherspec, tls.version, InFlight),
               LAMBDA o :
                  (/\ MacHolds(o)
                   /\ \/ o.type \in C11_UnknownRecordTypes
                      \/ /\ o.type = B(TLS_TYPE_HANDSHAKE)
                         /\ C11_AllUnknown(o.data)) =>
                     \A e \in Env :
                        e.mem_ok =>
                           With(tls_cipherstream_deliver(St, e, net_in),
                                LAMBDA r : C11_Receipt(o, r)))

\* a record of unknown type has been received by a session that is open
C11_Witness ==
    /\ sent \in {"unknown", "hs_unknown"}
    /\ net_in = <<>>
    /\ tls.cipherstream.open
    /\ tls.rx_seq = <<0, 0, 0, 1>>
    /\ tls.rx_state = TLS_RX_HEADER

\* a plaintext of n bytes whose last byte is p and whose bytes before it
\* are p as well, but for the one bad bytes before the last when bad > 0
C12_Plain(n, p, bad) ==
    [i \in 1..n |-> IF bad > 0 /\ i = n - bad THEN B((p + 1) % 256) ELSE B(p)]

\* the length of the explicit IV and of the MAC of a received record
C12_IvLen == IF tls.version >= TLS_VERSION_TLS_1_1 THEN 16 ELSE 0

C12_MacLen == digest_size(tls.rx_cipherspec.suite.digest)

\* the padding of the plaintext pt is bad: it does not fit, or one of the
\* pad_len bytes before the last byte is not pad_len
C12_BadPadding(pt) ==
    LET n == Len(pt)
        pad_len == Val(pt[n])
    IN  \/ C12_IvLen + C12_MacLen + pad_len + 1 > n
        \/ \E i \in 1..pad_len : pt[n - i] # B(pad_len)

\* the plaintext of the record in flight
C12_Plaintext ==
    cipher_decrypt(tls.rx_cipherspec.suite.cipher,
                   tls.rx_cipherspec.cipher_ctx,
                   Drop(InFlight, TlsHeaderLen)).dst

\* C12: a received block-ciphered record whose last byte is pad_len is
\* rejected with EINVAL, and the session closed, whenever iv_len + mac_len
\* + pad_len + 1 is more than the length of the record or one of the
\* pad_len bytes before the last byte is not pad_len (pad_len = 255 in a
\* record of 64 bytes, say); nothing of such a record is dispatched.
C12_Padding ==
    tls.rx_cipherspec.suite.cipher = "aes_cbc" =>
       /\ \A n \in {1, 16, 48, 64}, p \in {0, 1, 14, 15, 255}, bad \in {0, 1, 14} :
             (bad <= p /\ bad < n /\ C12_BadPadding(C12_Plain(n, p, bad))) =>
                tls_split_block(tls, C12_Plain(n, p, bad)).rc = EINVAL
       /\ (RecordInFlight /\ Len(C12_Plaintext) >= 1
              /\ C12_BadPadding(C12_Plaintext)) =>
             \A e \in Env :
                e.mem_ok =>
                   With(tls_cipherstream_deliver(St, e, net_in),
                        LAMBDA r :
                           /\ r.rc = EINVAL
                           /\ Closed(r.s.tls, EINVAL)
                           /\ r.s.app = app
                           /\ r.s.notified = notified
                           /\ r.s.tls.tx_pending = tls.tx_pending
                           /\ r.s.tls.tx_ready = tls.tx_ready
                           /\ C9_Grew(tls, r.s.tls, <<>>))

\* a record of 64 bytes whose last byte claims a padding of 255 bytes has
\* closed the session
C12_Witness ==
    /\ sent = "data_pad_len"
    /\ net_in = <<>>
    /\ Closed(tls, EINVAL)
    /\ app = <<>>

\* payloads a record can carry, and one whose record is longer than its
\* 16-bit length field can say
C13_Payloads == {<<>>, AppData, Blob(<<"payload">>, 18)}

C13_Long == Blob(<<"long">>, 65536)

C13_Seqs == {tls.tx_seq, <<0, 0, 0, 5>>, U64Max}

C13_Types == {B(TLS_TYPE_DATA), B(TLS_TYPE_HANDSHAKE)}

\* what the receiver collects of a record: its header and as many bytes as
\* the length field of the header says
C13_Collected(record) ==
    Take(record, TlsHeaderLen)
        \o SubSeq(record, TlsHeaderLen + 1,
                  TlsHeaderLen + N16(SubSeq(record, 4, 5)))

\* the record the send path builds for payload P of that type under
\* sequence number seq is opened by the receive path under the same suite,
\* keys, version and sequence number: P comes back, and the MAC computed
\* over what came back is the MAC carried
C13_RoundTrip(seq, type, P) ==
    With(tls_send_plaintext([St EXCEPT !.tls.tx_seq = seq], EnvCalm,
                            Val(type), P),
         LAMBDA r :
            /\ r.rc = OK
            /\ Len(r.s.wire) = Len(wire) + 1
            /\ With(C13_Collected(r.s.wire[Len(r.s.wire)]),
                    LAMBDA rec :
                       With(Opened(tls.tx_cipherspec, tls.version, rec),
                            LAMBDA o :
                               /\ o.type = type
                               /\ o.rc = OK
                               /\ o.data = P
                               /\ o.mac =
                                     tls_hmac(tls.tx_cipherspec, seq,
                                              SubSeq(rec, 1, 3)
                                                  \o U16(Len(o.data)),
                                              o.data))))

\* C13: round trip of the record layer: for every payload P, record type
\* and sequence number, the record built by the send path is accepted by
\* the receive path under the same suite, keys, version and sequence
\* number, which recovers exactly P and a recomputed MAC equal to the one
\* carried.
C13_RecordRoundTrip ==
    tls.cipherstream.open =>
       \A seq \in C13_Seqs, type \in C13_Types,
          P \in C13_Payloads \cup {C13_Long} :
             C13_RoundTrip(seq, type, P)

\* the round trip for the payloads whose record the length field can say
C13_ShortRoundTrip ==
    tls.cipherstream.open =>
       \A seq \in C13_Seqs, type \in C13_Types, P \in C13_Payloads :
          C13_RoundTrip(seq, type, P)

\* the certificates a server may present
C14_Ids == {"good", "wrong_name", "long_name", "untrusted"}

\* the subject name differs from the name of the server in length or in
\* one byte
C14_NameDiffers(name) ==
    \/ Len(name) # Len(tls.name)
    \/ \E i \in 1..Len(name) : name[i] # tls.name[i]

C14_Rejected(id) == ~X509(id).valid \/ C14_NameDiffers(X509(id).name)

\* what the message with the certificate id leaves: rc, whether the
\* session was closed or not told, and the public key context of the
\* pending TX cipher specification
C14_Outcome(id, e, rc, closed, pubkey_ctx) ==
    /\ C14_Rejected(id) =>
          /\ rc # OK
          /\ X509(id).valid => rc = EACCES_WRONG_NAME
          /\ closed
          /\ pubkey_ctx = tls.tx_cipherspec_pending.pubkey_ctx
          /\ pubkey_ctx # <<"rsa", X509(id).key>>
    /\ (/\ ~C14_Rejected(id)
        /\ e.key_ok
        /\ tls.tx_cipherspec_pending.suite.pubkey = "rsa") =>
          /\ rc = OK
          /\ pubkey_ctx = <<"rsa", X509(id).key>>

\* C14: on a Certificate message of the server, if the chain does not
\* validate, or if the subject name of the validated leaf differs from the
\* name of the server in length or in a byte, the message is rejected
\* (with EACCES_WRONG_NAME for the name), the session is closed, and the
\* public key of the leaf is not installed in the pending TX cipher
\* specification; the key is installed only when both checks pass.
C14_Certificate ==
    /\ \A id \in C14_Ids, e \in {EnvCalm, [EnvCalm EXCEPT !.key_ok = FALSE]} :
          With(tls_new_certificate(St, e,
                                   Drop(Certificate(id), HandshakeHdrLen)),
               LAMBDA r :
                  /\ C14_Outcome(id, e, r.rc, TRUE,
                                 r.s.tls.tx_cipherspec_pending.pubkey_ctx)
                  /\ C14_Rejected(id) => r.s = St)
    /\ RecordInFlight =>
          With(Opened(tls.rx_cipherspec, tls.version, InFlight),
               LAMBDA o :
                  \A id \in C14_Ids :
                     (/\ MacHolds(o)
                      /\ o.type = B(TLS_TYPE_HANDSHAKE)
                      /\ o.data = Certificate(id)) =>
                        \A e \in Env :
                           e.mem_ok =>
                              With(tls_cipherstream_deliver(St, e, net_in),
                                   LAMBDA r :
                                      C14_Outcome(
                                         id, e, r.rc,
                                         Closed(r.s.tls, r.rc),
                                         r.s.tls.tx_cipherspec_pending
                                            .pubkey_ctx)))

\* a certificate for another name has closed the session, and the pending
\* cipher specification holds no key
C14_Witness ==
    /\ sent \in {"cert_wrong_name", "cert_long_name"}
    /\ net_in = <<>>
    /\ Closed(tls, EACCES_WRONG_NAME)
    /\ tls.tx_cipherspec_pending.suite.pubkey = "rsa"
    /\ tls.tx_cipherspec_pending.pubkey_ctx = <<"zero">>

\* the versions a session may hold
C15_Versions ==
    {TLS_VERSION_TLS_1_0, TLS_VERSION_TLS_1_1, TLS_VERSION_TLS_1_2}

\* C15: over the lifetime of a session, whatever is received, the version
\* starts at TLS 1.2, never goes up, stays one of 1.0, 1.1 and 1.2, and
\* changes its value at most once: as it starts at 1.2 and never goes up,
\* that is to say every change is a change from 1.2.
C15_VersionOnce ==
    /\ tls.version = TLS_VERSION_TLS_1_2
    /\ [](tls.version \in C15_Versions)
    /\ [][tls'.version <= tls.version]_vars
    /\ [][tls'.version # tls.version =>
             tls.version = TLS_VERSION_TLS_1_2]_vars

\* the part that holds: the start at 1.2, no way up, and the three values
C15_VersionDown ==
    /\ tls.version = TLS_VERSION_TLS_1_2
    /\ [](tls.version \in C15_Versions)
    /\ [][tls'.version <= tls.version]_vars

\* sizes of a write of the application: up to 2^14 bytes, one more, and
\* 2^16
C16_Sizes == {1, 16384, 16385, 65536}

\* C16: for every write of the application, whatever its size, no record
\* emitted carries more than 2^14 bytes of payload, and the 16-bit length
\* field of the header of every record emitted is the number of body bytes
\* that follow the header.
C16_RecordSize ==
    (tls.tx_ready /\ tls.plainstream.open /\ tls.cipherstream.open) =>
       \A size \in C16_Sizes :
          With(tls_plainstream_deliver(St, EnvCalm, Blob(<<"write">>, size)),
               LAMBDA r :
                  \A i \in (Len(wire) + 1)..Len(r.s.wire) :
                     /\ N16(SubSeq(r.s.wire[i], 4, 5)) =
                           Len(r.s.wire[i]) - TlsHeaderLen
                     /\ Len(Opened(tls.tx_cipherspec, tls.version,
                                   r.s.wire[i]).data) <= 16384)

\* the same for the writes that fit one record of 2^14 bytes
C16_SmallRecordSize ==
    (tls.tx_ready /\ tls.plainstream.open /\ tls.cipherstream.open) =>
       \A size \in {1, 18} :
          With(tls_plainstream_deliver(St, EnvCalm, Blob(<<"write">>, size)),
               LAMBDA r :
                  /\ Len(r.s.wire) = Len(wire) + 1
                  /\ \A i \in (Len(wire) + 1)..Len(r.s.wire) :
                        /\ N16(SubSeq(r.s.wire[i], 4, 5)) =
                              Len(r.s.wire[i]) - TlsHeaderLen
                        /\ Len(Opened(tls.tx_cipherspec, tls.version,
                                      r.s.wire[i]).data) = size)

\* C17: liveness of the TX scheduler: if the session is open, tx_pending
\* is not empty, sends do not fail (a send that fails closes the session),
\* and the window of the ciphertext side, every change of which is
\* notified, in the end is and stays non-zero, then tx_pending becomes
\* empty in the end, each bit leaving it with a record emitted; and the
\* process, which a step that found the window at 0 left off the run
\* queue, is back on it after the notification of a window change.
C17_TxDrains ==
    /\ <>[](cwin # 0) =>
          ((tls.cipherstream.open /\ tls.tx_pending # {})
              ~> (tls.tx_pending = {} \/ ~tls.cipherstream.open))
    /\ [][(tls.cipherstream.open /\ tls'.cipherstream.open
              /\ tls'.tx_pending # tls.tx_pending
              /\ tls'.tx_pending \subseteq tls.tx_pending) =>
             (/\ Cardinality(tls'.tx_pending) = Cardinality(tls.tx_pending) - 1
              /\ Len(wire') = Len(wire) + 1)]_vars
    /\ [][(tls.cipherstream.open /\ cwin' # cwin) => tls'.process]_vars

\* a session that is open has sent its four records after a step had found
\* the window at 0, and nothing is pending
C17_Witness ==
    /\ tls.cipherstream.open
    /\ tls.tx_pending = {}
    /\ Len(wire) >= 4
    /\ cwin # 0
    /\ notified > 0
    /\ ~tls.process

\* the record written last
C18_Last(w) == w[Len(w)]

\* the step of tx_seq over a record handed to the ciphertext side: one
\* more, or zero again after a Change Cipher Spec
C18_TxNext(c, d, record) ==
    \/ d.tx_seq = U64Inc(c.tx_seq)
    \/ /\ record[1] = B(TLS_TYPE_CHANGE_CIPHER)
       /\ d.tx_seq = U64Zero

\* what one record sent and one record received do to the sequence numbers
C18_Calls ==
    /\ tls.cipherstream.open =>
          \A e \in Env :
             With(tls_send_plaintext(St, e, TLS_TYPE_DATA, AppData),
                  LAMBDA r :
                     /\ r.s.tls.rx_seq = tls.rx_seq
                     /\ IF r.rc # OK
                        THEN /\ r.s.tls.tx_seq = tls.tx_seq
                             /\ r.s.wire = wire
                        ELSE /\ r.s.tls.tx_seq = U64Inc(tls.tx_seq)
                             /\ Len(r.s.wire) = Len(wire) + 1
                             /\ Take(r.s.wire, Len(wire)) = wire
                             /\ With(Opened(tls.tx_cipherspec, tls.version,
                                            C18_Last(r.s.wire)),
                                     LAMBDA o :
                                        /\ o.rc = OK
                                        /\ o.mac =
                                              C4_Mac(tls.tx_cipherspec,
                                                     tls.tx_seq, tls.version,
                                                     o.type, o.data)))
    /\ (RecordInFlight /\ Len(InFlight) > TlsHeaderLen) =>
          \A e \in Env :
             With(tls_cipherstream_deliver(St, e, net_in),
                  LAMBDA r :
                     /\ r.s.tls.tx_seq = tls.tx_seq
                     /\ r.s.wire = wire
                     /\ r.s.tls.rx_seq =
                           IF r.rc # OK THEN tls.rx_seq
                           ELSE IF InFlight[1] = B(TLS_TYPE_CHANGE_CIPHER)
                           THEN U64Zero
                           ELSE U64Inc(tls.rx_seq))

\* C18: within an epoch tx_seq goes up by exactly 1 for each record handed
\* to the ciphertext side with success, and rx_seq by exactly 1 for each
\* received record processed without error (tls_newdata_process_data
\* returns 0); no other event changes either counter, but for the reset at
\* the Change Cipher Spec of its own direction; and records leave in the
\* order in which the sequence numbers were used: a record is written
\* behind the records before it and carries the MAC of the sequence number
\* consumed for it.
C18_Sequence ==
    /\ []C18_Calls
    /\ [][wire' # wire =>
             /\ Len(wire') = Len(wire) + 1
             /\ Take(wire', Len(wire)) = wire
             /\ C18_TxNext(tls, tls', C18_Last(wire'))]_vars
    /\ [][tls'.tx_seq # tls.tx_seq => wire' # wire]_vars
    /\ [][tls'.rx_seq # tls.rx_seq =>
             /\ net_in # <<>>
             /\ net_in' = <<>>
             /\ \/ tls'.rx_seq = U64Inc(tls.rx_seq)
                \/ /\ InFlight[1] = B(TLS_TYPE_CHANGE_CIPHER)
                   /\ tls'.rx_seq = U64Zero]_vars

\* both directions are in their second epoch: the Finished and one record
\* of application data have left, the Finished of the server has come
C18_Witness ==
    /\ tls.tx_cipherspec.suite.cipher = "aes_cbc"
    /\ tls.rx_cipherspec.suite.cipher = "aes_cbc"
    /\ tls.tx_seq = <<0, 0, 0, 2>>
    /\ tls.rx_seq = <<0, 0, 0, 1>>
    /\ Len(wire) >= 5
    /\ wire[Len(wire)][1] = B(TLS_TYPE_DATA)

\* the session without the scratch context of the active TX cipher
C19_Kept(s) == [s EXCEPT !.tls.tx_cipherspec.cipher_next_ctx = NULL]

\* C19: when tls_send_plaintext fails (the plaintext or the ciphertext
\* buffer cannot be allocated, or the ciphertext side refuses the
\* delivery), tx_seq and the context of the active TX cipher are exactly
\* as before the call; they advance only with a record handed over, so
\* that a later send uses the same sequence number and the same chaining
\* state, and gives the record the failed send would have given.
C19_FailedSend ==
    \A e \in Env, type \in {TLS_TYPE_DATA, TLS_TYPE_HANDSHAKE} :
       With(tls_send_plaintext(St, e, type, AppData),
            LAMBDA r :
               IF r.rc # OK
               THEN /\ r.s.tls.tx_seq = tls.tx_seq
                    /\ r.s.tls.tx_cipherspec.cipher_ctx =
                          tls.tx_cipherspec.cipher_ctx
                    /\ C19_Kept(r.s) = C19_Kept(St)
                    /\ tls_send_plaintext(r.s, EnvCalm, type, AppData).s.wire
                          = tls_send_plaintext(St, EnvCalm, type, AppData)
                               .s.wire
               ELSE /\ r.s.tls.tx_seq = U64Inc(tls.tx_seq)
                    /\ r.s.tls.tx_cipherspec.cipher_ctx =
                          cipher_encrypt(
                             tls.tx_cipherspec.suite.cipher,
                             tls.tx_cipherspec.cipher_ctx,
                             Drop(C18_Last(r.s.wire), TlsHeaderLen)).ctx
                    /\ Len(r.s.wire) = Len(wire) + 1)

\* a record of application data was encrypted and then refused: the
\* scratch context is one record ahead of the active context, and the
\* session goes on
C19_Witness ==
    /\ tls.tx_ready
    /\ tls.cipherstream.open
    /\ tls.tx_cipherspec.suite.cipher = "aes_cbc"
    /\ tls.tx_cipherspec.cipher_ctx[1] = "ctx"
    /\ tls.tx_cipherspec.cipher_next_ctx =
          [tls.tx_cipherspec.cipher_ctx EXCEPT ![4] = @ + 1]
    /\ tls.tx_seq = <<0, 0, 0, 1>>

\* tls_change_cipher on a pending and an active specification: what the
\* claim says of its result chg
C20_Changed(pending, active, chg) ==
    IF pending.suite = tls_cipher_suite_null
    THEN /\ chg.rc = ENOTSUP
         /\ chg.pending = pending
         /\ chg.active = active
    ELSE /\ chg.rc = OK
         /\ chg.active = pending
         /\ chg.pending.suite = tls_cipher_suite_null
         /\ ~chg.pending.dynamic
         /\ chg.pending.mac_secret = <<>>
         /\ chg.pending.cipher_ctx = NULL
         /\ chg.pending.pubkey_ctx = NULL
         /\ With(tls_change_cipher(chg.pending, chg.active),
                 LAMBDA again :
                    /\ again.rc = ENOTSUP
                    /\ again.pending = chg.pending
                    /\ again.active = chg.active)

\* C20: tls_change_cipher(pending, active): when pending is the null suite
\* it returns ENOTSUP and leaves pending and active as they are; otherwise
\* active takes what pending held (suite, keys, MAC secret) and pending is
\* left as the null suite without dynamic storage, so that a second Change
\* Cipher Spec in the same direction, with no Server Hello in between, is
\* refused.
C20_ChangeCipher ==
    /\ C20_Changed(tls.tx_cipherspec_pending, tls.tx_cipherspec,
                   tls_change_cipher(tls.tx_cipherspec_pending,
                                     tls.tx_cipherspec))
    /\ C20_Changed(tls.rx_cipherspec_pending, tls.rx_cipherspec,
                   tls_change_cipher(tls.rx_cipherspec_pending,
                                     tls.rx_cipherspec))
    /\ RecordInFlight =>
          With(Opened(tls.rx_cipherspec, tls.version, InFlight),
               LAMBDA o :
                  (/\ MacHolds(o)
                   /\ o.type = B(TLS_TYPE_CHANGE_CIPHER)
                   /\ o.data = <<B(1)>>) =>
                     \A e \in Env :
                        e.mem_ok =>
                           With(tls_cipherstream_deliver(St, e, net_in),
                                LAMBDA r :
                                   IF tls.rx_cipherspec_pending.suite
                                         = tls_cipher_suite_null
                                   THEN /\ r.rc = ENOTSUP
                                        /\ Closed(r.s.tls, ENOTSUP)
                                        /\ r.s.tls.rx_cipherspec_pending =
                                              tls.rx_cipherspec_pending
                                        /\ r.s.tls.rx_cipherspec.suite =
                                              tls.rx_cipherspec.suite
                                        /\ r.s.tls.rx_cipherspec.mac_secret =
                                              tls.rx_cipherspec.mac_secret
                                        /\ r.s.tls.rx_seq = tls.rx_seq
                                   ELSE /\ r.rc = OK
                                        /\ r.s.tls.rx_cipherspec =
                                              tls.rx_cipherspec_pending
                                        /\ r.s.tls.rx_cipherspec_pending =
                                              NullCipherspec))
    /\ (/\ tls.process /\ xfer_window(St) # 0 /\ tls.cipherstream.open
        /\ tls.tx_pending # {}
        /\ FirstPending(tls.tx_pending) = TLS_TX_CHANGE_CIPHER) =>
          With(tls_tx_step(process_del(St), EnvCalm),
               LAMBDA r :
                  IF tls.tx_cipherspec_pending.suite = tls_cipher_suite_null
                  THEN /\ Closed(r.tls, ENOTSUP)
                       /\ r.tls.tx_cipherspec_pending =
                             tls.tx_cipherspec_pending
                       /\ r.tls.tx_cipherspec.suite = tls.tx_cipherspec.suite
                       /\ r.tls.tx_cipherspec.mac_secret =
                             tls.tx_cipherspec.mac_secret
                  ELSE /\ r.tls.cipherstream.open
                       /\ r.tls.tx_cipherspec = tls.tx_cipherspec_pending
                       /\ r.tls.tx_cipherspec_pending = NullCipherspec)

\* a second Change Cipher Spec of the server, after the one that made the
\* RX cipher active, has been refused
C20_Witness ==
    /\ sent = "ccs"
    /\ nrx = 3
    /\ net_in = <<>>
    /\ Closed(tls, ENOTSUP)
    /\ tls.rx_cipherspec.suite.cipher = "aes_cbc"
    /\ tls.rx_cipherspec_pending = NullCipherspec

\* a cipher specification without the chaining state of its cipher: the
\* suite, the keys and the MAC secret
C21_Spec(spec) ==
    [suite |-> spec.suite, dynamic |-> spec.dynamic,
     pubkey_ctx |-> spec.pubkey_ctx, mac_secret |-> spec.mac_secret,
     key |-> IF spec.cipher_ctx[1] = "ctx"
             THEN <<spec.cipher_ctx[2], spec.cipher_ctx[3]>>
             ELSE spec.cipher_ctx]

\* both active specifications of d are those of the session
C21_ActiveKept(d) ==
    /\ d.tx_cipherspec = tls.tx_cipherspec
    /\ d.rx_cipherspec = tls.rx_cipherspec

\* the handlers of the handshake leave the active specifications alone
C21_Handlers ==
    /\ \A e \in {EnvCalm, [EnvCalm EXCEPT !.mem_ok = FALSE]} :
          /\ \A suite \in {TLS_RSA_WITH_AES_256_CBC_SHA256,
                           TLS_RSA_WITH_AES_128_CBC_SHA, 0} :
                C21_ActiveKept(tls_select_cipher(tls, suite, e).tls)
          /\ \A version \in {TLS_VERSION_TLS_1_2, TLS_VERSION_TLS_1_0} :
                C21_ActiveKept(
                   tls_new_server_hello(
                      St, e,
                      Drop(ServerHello(version, TLS_RSA_WITH_AES_128_CBC_SHA),
                           HandshakeHdrLen)).s.tls)
          /\ \A id \in C14_Ids :
                C21_ActiveKept(
                   tls_new_certificate(
                      St, e, Drop(Certificate(id), HandshakeHdrLen)).s.tls)
    /\ C21_ActiveKept(tls_generate_keys(tls_generate_master_secret(tls)).tls)

\* C21: the active cipher specification of a direction changes only at a
\* Change Cipher Spec of that direction (TX: right after the Change Cipher
\* Spec record was sent; RX: on receipt of a valid Change Cipher Spec
\* record), where it takes what was pending; Server Hello, Certificate,
\* the derivation of the keys and every other event change pending
\* specifications only and leave both active specifications as they are.
C21_ActiveSpec ==
    /\ []C21_Handlers
    /\ [][C21_Spec(tls'.tx_cipherspec) # C21_Spec(tls.tx_cipherspec) =>
             /\ Len(wire') = Len(wire) + 1
             /\ wire'[Len(wire')][1] = B(TLS_TYPE_CHANGE_CIPHER)
             /\ tls'.tx_cipherspec = tls.tx_cipherspec_pending]_vars
    /\ [][C21_Spec(tls'.rx_cipherspec) # C21_Spec(tls.rx_cipherspec) =>
             /\ RecordInFlight
             /\ net_in' = <<>>
             /\ InFlight[1] = B(TLS_TYPE_CHANGE_CIPHER)
             /\ MacHolds(Opened(tls.rx_cipherspec, tls.version, InFlight))
             /\ Opened(tls.rx_cipherspec, tls.version, InFlight).data
                   = <<B(1)>>
             /\ tls'.rx_cipherspec = tls.rx_cipherspec_pending]_vars

\* the keys are derived and pending in both directions, and both active
\* specifications are still the null suite
C21_Witness ==
    /\ tls.tx_cipherspec_pending.suite.cipher = "aes_cbc"
    /\ tls.tx_cipherspec_pending.cipher_ctx[1] = "ctx"
    /\ tls.tx_cipherspec_pending.pubkey_ctx[1] = "rsa"
    /\ tls.rx_cipherspec_pending.cipher_ctx[1] = "ctx"
    /\ tls.tx_cipherspec = NullCipherspec
    /\ tls.rx_cipherspec = NullCipherspec
    /\ Len(wire) >= 2

\* rx_rcvd is less than the length awaited, unless that length is 0
C22_Bounded(c) ==
    IF c.rx_state = TLS_RX_HEADER
    THEN c.rx_rcvd < TlsHeaderLen
    ELSE \/ c.rx_rcvd < N16(SubSeq(c.rx_header, 4, 5))
         \/ N16(SubSeq(c.rx_header, 4, 5)) = 0

\* the session that holds the record in flight, header and body, all
\* received
C22_Assembled ==
    [St EXCEPT !.tls.rx_header = Take(InFlight, TlsHeaderLen),
               !.tls.rx_data = Drop(InFlight, TlsHeaderLen),
               !.tls.rx_state = TLS_RX_DATA,
               !.tls.rx_rcvd = Len(InFlight) - TlsHeaderLen]

\* what one pass of the assembled record through the receive path leaves
C22_Once(e) ==
    With(tls_newdata_process_data(C22_Assembled, e),
         LAMBDA p :
            IF p.rc # OK THEN [rc |-> p.rc, s |-> tls_close(p.s, p.rc)]
            ELSE [rc |-> OK, s |-> [p.s EXCEPT !.tls.rx_rcvd = 0]])

\* a header that announces three bytes
C22_NextHeader == TlsHeader(TLS_TYPE_DATA, TLS_VERSION_TLS_1_2, 3)

\* the places at which the bytes in flight are cut in two
C22_Cuts == {k \in {1, 2, TlsHeaderLen, TlsHeaderLen + 1, Len(net_in) - 1} :
                k > 0 /\ k < Len(net_in)}

\* the record in flight has a body
C22_HasBody == Len(InFlight) > TlsHeaderLen

\* the reassembly of the record in flight: whole or cut in two it is
\* passed once to the receive path, which leaves the header state with
\* nothing received and no body buffer, and the bytes behind it are taken
\* as the next header; a record without a body is passed when the next
\* bytes arrive; in between, rx_rcvd is bounded
C22_Records ==
    RecordInFlight =>
       \A e \in Env :
          e.mem_ok =>
             With(tls_cipherstream_deliver(St, e, net_in),
                  LAMBDA r :
                     /\ IF C22_HasBody THEN r = C22_Once(e)
                        ELSE /\ r.rc = OK
                             /\ r.s.tls.rx_state = TLS_RX_DATA
                             /\ r.s.tls.rx_rcvd = 0
                             /\ r.s.tls.rx_seq = tls.rx_seq
                     /\ \A k \in C22_Cuts :
                           With(tls_cipherstream_deliver(St, e,
                                                         Take(net_in, k)),
                                LAMBDA part :
                                   /\ part.rc = OK
                                   /\ C22_Bounded(part.s.tls)
                                   /\ tls_cipherstream_deliver(
                                         part.s, e, Drop(net_in, k)) = r)
                     /\ With(C22_Once(e),
                             LAMBDA once :
                                /\ once.rc = OK =>
                                      /\ once.s.tls.rx_state = TLS_RX_HEADER
                                      /\ once.s.tls.rx_rcvd = 0
                                      /\ once.s.tls.rx_data = NoBuf
                                /\ With(tls_cipherstream_deliver(
                                           St, e, net_in \o C22_NextHeader),
                                        LAMBDA two :
                                           IF once.rc # OK THEN two = once
                                           ELSE /\ two = tls_cipherstream_deliver(
                                                            once.s, e,
                                                            C22_NextHeader)
                                                /\ two.s.tls.rx_header =
                                                      C22_NextHeader
                                                /\ two.s.tls.rx_state =
                                                      TLS_RX_DATA
                                                /\ two.s.tls.rx_rcvd = 0
                                                /\ Len(two.s.tls.rx_data) = 3
                                                /\ two.s.tls.rx_seq =
                                                      once.s.tls.rx_seq)))

\* C22 as it stands: the reassembler takes the byte stream as a header of
\* 5 bytes followed by exactly header.length body bytes, header and body
\* in turn; every record assembled is passed to the receive path exactly
\* once and in the order of arrival, and after each record processed the
\* state is the header state with rx_rcvd = 0 and the body buffer
\* released; in every state between callbacks rx_rcvd is less than the
\* length awaited unless that length is 0.
C22_Reassembly ==
    /\ C22_Records
    /\ C22_Bounded(tls)

\* C22, amended: the same, with the bound on rx_rcvd in every state
\* between callbacks in which the session is open.
C22_OpenReassembly ==
    /\ C22_Records
    /\ tls.cipherstream.open => C22_Bounded(tls)

\* two records have been processed, and the reassembler waits for a header
C22_Witness ==
    /\ tls.cipherstream.open
    /\ net_in = <<>>
    /\ tls.rx_seq = <<0, 0, 0, 2>>
    /\ tls.rx_state = TLS_RX_HEADER
    /\ tls.rx_rcvd = 0
    /\ tls.rx_data = NoBuf

\* C23: when the window of the ciphertext side is 0, a run of the TX
\* process emits nothing, leaves tx_pending, tx_seq, both TX cipher
\* specifications and the transcript as they are, and does not put itself
\* back on the run queue.
C23_WindowShut ==
    xfer_window(St) = 0 =>
       \A e \in Env :
          With(tls_tx_step(process_del(St), e),
               LAMBDA t :
                  /\ t.wire = wire
                  /\ t.tls.tx_pending = tls.tx_pending
                  /\ t.tls.tx_seq = tls.tx_seq
                  /\ t.tls.tx_cipherspec = tls.tx_cipherspec
                  /\ t.tls.tx_cipherspec_pending = tls.tx_cipherspec_pending
                  /\ C9_Grew(tls, t.tls, <<>>)
                  /\ ~t.tls.process
                  /\ t = process_del(St))

\* the process has run with the window at 0: the Client Hello is still
\* pending, nothing was sent, and the process is off the run queue
C23_Witness ==
    /\ cwin = 0
    /\ tls.cipherstream.open
    /\ ~tls.process
    /\ tls.tx_pending = {TLS_TX_CLIENT_HELLO}
    /\ wire = <<>>

\* the bits a Server Hello Done schedules
C24_Flight == {TLS_TX_CLIENT_KEY_EXCHANGE, TLS_TX_CHANGE_CIPHER, TLS_TX_FINISHED}

\* the record whose last bytes are in flight: what the session holds of it
\* already, then the bytes to come
C24_Record ==
    IF tls.rx_state = TLS_RX_HEADER
    THEN Take(tls.rx_header, tls.rx_rcvd) \o net_in
    ELSE tls.rx_header \o Take(tls.rx_data, tls.rx_rcvd) \o net_in

\* the handshake messages of that record
C24_Messages ==
    With(Opened(tls.rx_cipherspec, tls.version, C24_Record),
         LAMBDA o : IF o.rc = OK /\ o.type = B(TLS_TYPE_HANDSHAKE)
                    THEN C9_Messages(o.data) ELSE <<>>)

\* the bits the messages msgs may put into tx_pending
C24_Scheduled(msgs) ==
    (IF \E i \in 1..Len(msgs) : msgs[i] = ServerHelloDone
     THEN C24_Flight ELSE {})
       \cup (IF \E i \in 1..Len(msgs) :
                   msgs[i][1] = B(TLS_CERTIFICATE_REQUEST)
             THEN {TLS_TX_CERTIFICATE} ELSE {})

\* the Certificate is the transmission to send next
C24_CertificateNext ==
    /\ tls.tx_pending # {}
    /\ FirstPending(tls.tx_pending) = TLS_TX_CERTIFICATE

\* what each handler and one run of the process put into tx_pending
C24_Handlers ==
    /\ add_tls(ServerName).tx_pending = {TLS_TX_CLIENT_HELLO}
    /\ With(tls_new_server_hello_done(St, EnvCalm, <<>>),
            LAMBDA r :
               /\ r.rc = OK
               /\ r.s.tls.tx_pending = tls.tx_pending \cup C24_Flight)
    /\ tls_new_server_hello_done(St, EnvCalm, <<B(0)>>)
          = [rc |-> EINVAL, s |-> St]
    /\ \A body \in {<<>>, <<B(1), B(1)>>} :
          With(tls_new_certificate_request(St, EnvCalm, body),
               LAMBDA r :
                  /\ r.rc = OK
                  /\ r.s.tls.tx_pending =
                        tls.tx_pending \cup {TLS_TX_CERTIFICATE})
    /\ (tls.process /\ tls.cipherstream.open /\ xfer_window(St) # 0) =>
          \A e \in Env :
             With(tls_tx_step(process_del(St), e),
                  LAMBDA t :
                     /\ (t.tls.tx_pending \ tls.tx_pending)
                           \subseteq {TLS_TX_CERTIFICATE_VERIFY}
                     /\ TLS_TX_CERTIFICATE_VERIFY
                           \in (t.tls.tx_pending \ tls.tx_pending) =>
                           /\ C24_CertificateNext
                           /\ have_client_certificate(St)
                     /\ (/\ C24_CertificateNext
                         /\ have_client_certificate(St)
                         /\ Len(t.wire) = Len(wire) + 1) =>
                           /\ TLS_TX_CERTIFICATE_VERIFY \in t.tls.tx_pending
                           /\ SubSeq(t.wire[Len(t.wire)], 1, 6) =
                                 <<B(TLS_TYPE_HANDSHAKE)>>
                                    \o U16(tls.version)
                                    \o U16(Len(ClientCertificate(St)))
                                    \o <<B(TLS_CERTIFICATE)>>)

\* C24: bits enter tx_pending only so: Client Hello at construction;
\* exactly Client Key Exchange, Change Cipher Spec and Finished on a
\* Server Hello Done with an empty body (a body that is not empty is
\* refused with EINVAL and schedules nothing); exactly Certificate on a
\* Certificate Request; Certificate Verify only when the Certificate
\* record is produced while a client certificate is configured.  No other
\* message received changes tx_pending.
C24_Pending ==
    /\ []C24_Handlers
    /\ [][tls'.tx_pending \ tls.tx_pending # {} =>
             IF net_in' # net_in
             THEN /\ net_in # <<>>
                  /\ (tls'.tx_pending \ tls.tx_pending)
                        \subseteq C24_Scheduled(C24_Messages)
                  /\ C24_Scheduled(C24_Messages) \subseteq tls'.tx_pending
             ELSE /\ tls'.tx_pending \ tls.tx_pending
                        = {TLS_TX_CERTIFICATE_VERIFY}
                  /\ C24_CertificateNext
                  /\ client_certificate # <<>>
                  /\ Len(wire') >= Len(wire)]_vars

\* the Certificate of the client has left, and Certificate Verify is
\* pending behind Client Key Exchange
C24_Witness ==
    /\ client_certificate # <<>>
    /\ tls.cipherstream.open
    /\ Len(wire) = 2
    /\ wire[2][6] = B(TLS_CERTIFICATE)
    /\ tls.tx_pending = C24_Flight \cup {TLS_TX_CERTIFICATE_VERIFY}

\* payloads of a Change Cipher Spec record other than the single byte 1
C25_Payloads ==
    {<<>>, <<B(0)>>, <<B(2)>>, <<B(1), B(1)>>, <<B(0), B(1)>>}

\* the receive side of the session c: both specifications, the running
\* state of the cipher left out, and the sequence number
C25_Rx(c) ==
    [pending |-> c.rx_cipherspec_pending,
     active |-> C21_Spec(c.rx_cipherspec),
     seq |-> c.rx_seq]

\* C25: a received Change Cipher Spec record whose payload is not exactly
\* the single byte 1 is refused with EINVAL and closes the session, and
\* then neither the receive cipher specifications nor rx_seq are modified.
C25_BadChangeCipher ==
    /\ \A data \in C25_Payloads :
          /\ \A e \in Env :
                tls_new_change_cipher(St, e, data) = [rc |-> EINVAL, s |-> St]
          /\ tls_new_record(St, EnvCalm, B(TLS_TYPE_CHANGE_CIPHER), data)
                = [rc |-> EINVAL, s |-> St]
    /\ (RecordInFlight /\ InFlight[1] = B(TLS_TYPE_CHANGE_CIPHER)) =>
          With(Opened(tls.rx_cipherspec, tls.version, InFlight),
               LAMBDA o :
          With(tls_cipherstream_deliver(
                   St, EnvCalm,
                   IF C22_HasBody THEN net_in ELSE net_in \o C22_NextHeader),
               LAMBDA r :
                  (MacHolds(o) /\ o.data # <<B(1)>>) =>
                     /\ r.rc = EINVAL
                     /\ Closed(r.s.tls, EINVAL)
                     /\ C25_Rx(r.s.tls) = C25_Rx(tls)
                     /\ r.s.tls.rx_cipherspec.suite = tls.rx_cipherspec.suite))

\* the session is closed by a Change Cipher Spec record that does not carry
\* the byte 1: keys wait in the pending specification, the active one is
\* the null one still
C25_Witness ==
    /\ sent \in {"ccs_value", "ccs_long", "ccs_empty"}
    /\ Closed(tls, EINVAL)
    /\ tls.rx_seq = <<0, 0, 0, 1>>
    /\ tls.rx_cipherspec = NullCipherspec
    /\ tls.rx_cipherspec_pending.suite.cipher = "aes_cbc"

\* C26: the pre_master_secret is never read once the Finished of the
\* server is verified: whatever the server sends, no Client Key Exchange is
\* produced and no master secret is derived once tx_ready is true.
C26_PreMasterSecretUnread ==
    [][tls.tx_ready =>
          /\ ~(/\ TLS_TX_CLIENT_KEY_EXCHANGE \in tls.tx_pending
               /\ TLS_TX_CLIENT_KEY_EXCHANGE \notin tls'.tx_pending
               /\ Len(wire') = Len(wire) + 1)
          /\ tls'.master_secret = tls.master_secret]_vars

\* the sizes of the six parts of the key block of a suite, in their order:
\* TX MAC secret, RX MAC secret, TX key, RX key, TX IV, RX IV
C27_Sizes(suite) ==
    <<digest_size(suite.digest), digest_size(suite.digest),
      suite.key_len, suite.key_len,
      cipher_blocksize(suite.cipher), cipher_blocksize(suite.cipher)>>

\* where the part i starts: the sum of the sizes before it
RECURSIVE C27_Offset(_, _)
C27_Offset(sizes, i) ==
    IF i = 1 THEN 0 ELSE C27_Offset(sizes, i - 1) + sizes[i - 1]

\* the part i of the key block
C27_Part(key_block, sizes, i) ==
    Blob(<<"part", Id(key_block), C27_Offset(sizes, i), sizes[i]>>, sizes[i])

\* the key block of the session c
C27_KeyBlock(c) ==
    tls_prf(c.version, c.master_secret,
            2 * (digest_size(c.tx_cipherspec_pending.suite.digest)
                 + c.tx_cipherspec_pending.suite.key_len
                 + cipher_blocksize(c.tx_cipherspec_pending.suite.cipher)),
            Label("key expansion", 13) \o c.server_random \o c.client_random)

\* the pending specifications of d hold the six parts of the key block of c
C27_Installed(c, d) ==
    With(C27_Sizes(c.tx_cipherspec_pending.suite),
         LAMBDA sizes :
    With(C27_KeyBlock(c),
         LAMBDA key_block :
            /\ Len(key_block) = C27_Offset(sizes, 7)
            /\ C27_Offset(sizes, 7) = 2 * (sizes[1] + sizes[3] + sizes[5])
            /\ d.tx_cipherspec_pending.mac_secret
                  = C27_Part(key_block, sizes, 1)
            /\ d.rx_cipherspec_pending.mac_secret
                  = C27_Part(key_block, sizes, 2)
            /\ C21_Spec(d.tx_cipherspec_pending).key
                  = <<Id(C27_Part(key_block, sizes, 3)),
                      Id(C27_Part(key_block, sizes, 5))>>
            /\ C21_Spec(d.rx_cipherspec_pending).key
                  = <<Id(C27_Part(key_block, sizes, 4)),
                      Id(C27_Part(key_block, sizes, 6))>>))

\* the master secret of the session c
C27_MasterSecret(c) ==
    tls_prf(c.version, c.pre_master_secret, 48,
            Label("master secret", 13) \o c.client_random \o c.server_random)

\* C27: the key derivation produces a key block of exactly
\* 2 * (digest_size + key_size + iv_size) bytes from
\* PRF(master_secret, "key expansion", server_random then client_random)
\* and consumes it completely and in order as TX MAC secret, RX MAC secret,
\* TX key, RX key, TX IV, RX IV; the TX parts go into the pending TX
\* specification and the RX parts into the pending RX one; the master
\* secret is made with the seeds client_random then server_random.
C27_KeyBlockParts ==
    /\ With(tls_generate_master_secret(tls),
            LAMBDA m :
               /\ m = [tls EXCEPT !.master_secret = C27_MasterSecret(tls)]
               /\ Len(m.master_secret) = 48
               /\ With(tls_generate_keys(m),
                       LAMBDA r :
                          /\ r.rc = OK
                          /\ C27_Installed(m, r.tls)
                          /\ r.tls.tx_cipherspec_pending.cipher_ctx[1] = "ctx"
                          /\ r.tls.rx_cipherspec_pending.cipher_ctx[1] = "ctx"
                          /\ [r.tls EXCEPT !.tx_cipherspec_pending = 0,
                                           !.rx_cipherspec_pending = 0]
                                = [m EXCEPT !.tx_cipherspec_pending = 0,
                                            !.rx_cipherspec_pending = 0]
                          /\ C21_ActiveKept(r.tls)))
    /\ (/\ tls.cipherstream.open
        /\ tls.tx_cipherspec_pending.cipher_ctx[1] = "ctx") =>
          /\ tls.master_secret = C27_MasterSecret(tls)
          /\ C27_Installed(tls, tls)

\* the keys of a suite with SHA-1 wait in the pending specifications
C27_Witness ==
    /\ tls.cipherstream.open
    /\ tls.tx_cipherspec_pending.cipher_ctx[1] = "ctx"
    /\ tls.rx_cipherspec_pending.cipher_ctx[1] = "ctx"
    /\ tls.tx_cipherspec_pending.suite.digest = "sha1"
    /\ Len(tls.rx_cipherspec_pending.mac_secret) = 20
    /\ tls.version = TLS_VERSION_TLS_1_0

\* ceil ( len / 2 )
C28_Half(len) == (len \div 2) + (len % 2)

\* the PRF of a version: P_SHA256 over the whole secret from 1.2 on, else
\* P_MD5 over the first half of the secret XOR P_SHA1 over the last half
C28_Prf(version, secret, out_len, seeds) ==
    IF version >= 771
    THEN Blob(<<"p_hash", "sha256", Id(secret), Id(seeds)>>, out_len)
    ELSE Blob(<<"xor",
                Id(Blob(<<"p_hash", "md5",
                          Id(SubSeq(secret, 1, C28_Half(Len(secret)))),
                          Id(seeds)>>, out_len)),
                Id(Blob(<<"p_hash", "sha1",
                          Id(SubSeq(secret,
                                    Len(secret) - C28_Half(Len(secret)) + 1,
                                    Len(secret))),
                          Id(seeds)>>, out_len))>>,
              out_len)

C28_Secrets ==
    {<<B(1)>>, <<B(1), B(2)>>, <<B(1), B(2), B(3)>>,
     Blob(<<"secret">>, 48)}

C28_Lengths == {1, 12, 48, 136}

\* the Server Hello messages of the record whose last bytes are in flight
C28_Hellos ==
    SelectSeq(C24_Messages, LAMBDA m : m[1] = B(TLS_SERVER_HELLO))

\* the PRF over secrets of even and of odd length, for each version, with
\* the random bytes of the client as the seed
C28_Function ==
    /\ \A version \in {TLS_VERSION_TLS_1_0, TLS_VERSION_TLS_1_1,
                       TLS_VERSION_TLS_1_2},
          secret \in C28_Secrets, out_len \in C28_Lengths :
          With(tls_prf(version, secret, out_len, Label("test", 4) \o tls.client_random),
               LAMBDA out :
                  /\ Len(out) = out_len
                  /\ out = C28_Prf(version, secret, out_len,
                                   Label("test", 4) \o tls.client_random))

\* the runs of the PRF in the session take the variant of its version
C28_Runs ==
    /\ tls_generate_master_secret(tls).master_secret
          = C28_Prf(tls.version, tls.pre_master_secret, 48,
                    Label("master secret", 13) \o tls.client_random
                        \o tls.server_random)
    /\ C27_KeyBlock(tls)
          = C28_Prf(tls.version, tls.master_secret, Len(C27_KeyBlock(tls)),
                    Label("key expansion", 13) \o tls.server_random
                        \o tls.client_random)
    /\ ClientFinished(tls)
          = Handshake(TLS_FINISHED,
                      C28_Prf(tls.version, tls.master_secret, 12,
                              Label("client finished", 15)
                                  \o tls_verify_handshake(tls)))
    /\ With(C28_Prf(tls.version, tls.master_secret, 12,
                    Label("server finished", 15)
                        \o tls_verify_handshake(tls)),
            LAMBDA verify_data :
               /\ tls_new_finished(St, EnvCalm, verify_data).rc = OK
               /\ tls_new_finished(
                      St, EnvCalm,
                      C28_Prf(IF tls.version >= 771 THEN 770 ELSE 771,
                              tls.master_secret, 12,
                              Label("server finished", 15)
                                  \o tls_verify_handshake(tls))).rc = EPERM)
    /\ (/\ tls.cipherstream.open
        /\ tls.tx_cipherspec_pending.cipher_ctx[1] = "ctx") =>
          /\ tls.master_secret
                = C28_Prf(tls.version, tls.pre_master_secret, 48,
                          Label("master secret", 13) \o tls.client_random
                              \o tls.server_random)
          /\ tls.tx_cipherspec_pending.mac_secret
                = Blob(<<"part", Id(C27_KeyBlock(tls)), 0,
                         digest_size(tls.tx_cipherspec_pending.suite.digest)>>,
                       digest_size(tls.tx_cipherspec_pending.suite.digest))

\* C28: every run of the PRF (master secret, key expansion, Finished of
\* the client and of the server) takes the variant of the version which the
\* accepted Server Hello has negotiated: P_SHA256 over the whole secret iff
\* the version is 1.2 or later, else P_MD5 over the first ceil(len/2) bytes
\* of the secret XOR P_SHA1 over its last ceil(len/2) bytes; the output has
\* exactly the length asked for, and it is a function of the inputs alone.
C28_PrfVariant ==
    /\ C28_Function
    /\ []C28_Runs
    /\ [][tls'.version # tls.version =>
             /\ net_in' # net_in
             /\ C28_Hellos # <<>>
             /\ \E i \in 1..Len(C28_Hellos) :
                   N16(SubSeq(C28_Hellos[i], 5, 6)) = tls'.version]_vars

\* a handshake under TLS 1.0 has come to its end: both Finished are done
C28_Witness ==
    /\ tls.version = TLS_VERSION_TLS_1_0
    /\ tls.tx_ready
    /\ tls.tx_pending = {}
    /\ tls.cipherstream.open
    /\ tls.tx_cipherspec.suite.digest = "sha1"

\* the longest payload of the check of the padding: two blocks and a byte
MaxPayload == 33

\* a payload of n bytes
C29_Payload(n) == [i \in 1..n |-> B(i % 256)]

\* the plaintext pt built for the payload data under the session c is well
\* formed: whole blocks, the padding, and the IV in front from 1.1 on
C29_WellFormed(c, data, mac, pt) ==
    LET blocksize == cipher_blocksize(c.tx_cipherspec.suite.cipher)
        mac_len == digest_size(c.tx_cipherspec.suite.digest)
        iv_len == IF c.version >= 770 THEN blocksize ELSE 0
        pad_len == Val(pt[Len(pt)])
    IN  /\ Len(pt) % blocksize = 0
        /\ pt[Len(pt)][1] = "b"
        /\ pad_len \in 0..(blocksize - 1)
        /\ Len(pt) = iv_len + Len(data) + mac_len + pad_len + 1
        /\ \A i \in (Len(pt) - pad_len)..Len(pt) : pt[i] = B(pad_len)
        /\ SubSeq(pt, iv_len + 1, iv_len + Len(data)) = data
        /\ SubSeq(pt, iv_len + Len(data) + 1, iv_len + Len(data) + mac_len)
              = mac
        /\ \A i \in 1..iv_len : pt[i][1] \in {"s", "f"}

\* the session with the version and the suite of the active TX
\* specification replaced
C29_Session(version, suite) ==
    [tls EXCEPT !.version = version, !.tx_cipherspec.suite = suite]

\* the records the session would send now under its block cipher
C29_Sends ==
    tls.tx_cipherspec.suite.cipher = "aes_cbc" =>
       \A data \in {<<>>, <<B(7)>>, AppData, ClientFinished(tls)} :
          With(tls_hmac(tls.tx_cipherspec, tls.tx_seq,
                        TlsHeader(TLS_TYPE_DATA, tls.version, Len(data)),
                        data),
               LAMBDA mac :
                  C29_WellFormed(tls, data, mac,
                                 tls_assemble_block(tls, data, mac, TRUE)))

\* C29: for every payload length and MAC length, the plaintext built for
\* a block cipher on send has a total length that is a multiple of the
\* block size, a pad length in 0 .. block_size - 1, its last pad_len + 1
\* bytes all equal to pad_len, and a prefix of block_size bytes of IV
\* exactly when the version is 1.1 or later (none for 1.0).
C29_BlockPlaintext ==
    /\ \A n \in 0..MaxPayload,
           code \in {TLS_RSA_WITH_AES_128_CBC_SHA,
                     TLS_RSA_WITH_AES_256_CBC_SHA256},
           version \in {TLS_VERSION_TLS_1_0, TLS_VERSION_TLS_1_1,
                        TLS_VERSION_TLS_1_2} :
           With(C29_Session(version, tls_find_cipher_suite(code)),
                LAMBDA c :
                   C29_WellFormed(
                      c, C29_Payload(n),
                      Blob(<<"mac">>, digest_size(c.tx_cipherspec.suite.digest)),
                      tls_assemble_block(
                         c, C29_Payload(n),
                         Blob(<<"mac">>,
                              digest_size(c.tx_cipherspec.suite.digest)),
                         TRUE)))
    /\ []C29_Sends

\* a record has left under AES in a session of TLS 1.0, in whole blocks
\* behind its header
C29_Witness ==
    /\ tls.tx_cipherspec.suite.cipher = "aes_cbc"
    /\ tls.tx_seq = <<0, 0, 0, 1>>
    /\ tls.version = TLS_VERSION_TLS_1_0
    /\ Len(wire[Len(wire)]) % 16 = TlsHeaderLen

\* C30: in every reachable state in which tx_ready is true, a Server Hello
\* has been accepted, a Certificate of the server has been validated
\* against the server's name, and both the active TX and the active RX
\* cipher specification are non-null; hence no ApplicationData record is
\* ever sent under the null suite.
C30_ReadySecured ==
    /\ tls.tx_ready =>
          /\ tls.server_random # Bytes([i \in 1..32 |-> 0])
          /\ tls.tx_cipherspec.pubkey_ctx = <<"rsa", X509("good").key>>
          /\ tls.tx_cipherspec.suite # tls_cipher_suite_null
          /\ tls.rx_cipherspec.suite # tls_cipher_suite_null
    /\ \A i \in AppRecords :
          wire[i] # TlsHeader(TLS_TYPE_DATA, tls.version, Len(AppData))
                       \o AppData

\* C31: a received ApplicationData record is handed to the plaintext side
\* only if the handshake is complete (the Finished of the server verified)
\* and the active RX cipher specification is non-null; ApplicationData
\* that arrives earlier never reaches the application.
C31_DataAfterHandshake ==
    [][app' # app =>
          /\ tls.tx_ready
          /\ tls.rx_cipherspec.suite # tls_cipher_suite_null]_vars

\* a step sends the transmission bit: the bit leaves tx_pending and one
\* record joins the wire
C32_Emits(bit) ==
    /\ bit \in tls.tx_pending
    /\ bit \notin tls'.tx_pending
    /\ Len(wire') = Len(wire) + 1

\* C32: a Client Key Exchange record is emitted only after a Server Hello
\* has been accepted and, after the latest Server Hello, a Certificate of
\* the server has been validated and its public key installed in the
\* pending TX cipher specification, which the encryption uses.
C32_KeyExchangeAfterCertificate ==
    [][C32_Emits(TLS_TX_CLIENT_KEY_EXCHANGE) =>
          /\ tls.server_random # Bytes([i \in 1..32 |-> 0])
          /\ tls.tx_cipherspec_pending.suite.pubkey = "rsa"
          /\ tls.tx_cipherspec_pending.pubkey_ctx
                = <<"rsa", X509("good").key>>]_vars

\* C33: a Change Cipher Spec record goes on the wire only when the pending
\* TX cipher specification is non-null: the record is emitted and the
\* pending TX specification becomes the active one together, or neither
\* happens, in whatever order the messages of the server come.
C33_ChangeCipherTogether ==
    /\ [][(/\ Len(wire') = Len(wire) + 1
           /\ wire'[Len(wire')][1] = B(TLS_TYPE_CHANGE_CIPHER)) =>
             /\ tls.tx_cipherspec_pending.suite # tls_cipher_suite_null
             /\ tls'.tx_cipherspec = tls.tx_cipherspec_pending]_vars
    /\ [][C21_Spec(tls'.tx_cipherspec) # C21_Spec(tls.tx_cipherspec) =>
             /\ Len(wire') = Len(wire) + 1
             /\ wire'[Len(wire')][1] = B(TLS_TYPE_CHANGE_CIPHER)]_vars

\* a change of cipher never makes the null suite the active one
C34_Change(pending, active) ==
    With(tls_change_cipher(pending, active),
         LAMBDA chg :
            IF chg.rc = OK
            THEN /\ chg.active = pending
                 /\ chg.active.suite # tls_cipher_suite_null
            ELSE /\ chg.active = active
                 /\ chg.pending = pending)

\* what the changes of cipher would do in this state
C34_Changes ==
    /\ C34_Change(tls.tx_cipherspec_pending, tls.tx_cipherspec)
    /\ C34_Change(tls.rx_cipherspec_pending, tls.rx_cipherspec)
    /\ C34_Change(NullCipherspec, tls.tx_cipherspec)

\* C34: every Finished of the client is emitted under a non-null active TX
\* cipher specification, and an active cipher specification of either
\* direction that is non-null never becomes the null suite again while
\* the session exists.
C34_FinishedProtected ==
    /\ []C34_Changes
    /\ [][(/\ C32_Emits(TLS_TX_FINISHED)
           /\ wire'[Len(wire')][1] = B(TLS_TYPE_HANDSHAKE)) =>
             /\ tls.tx_cipherspec.suite # tls_cipher_suite_null
             /\ tls'.tx_cipherspec.suite = tls.tx_cipherspec.suite]_vars
    /\ [][tls.tx_cipherspec.suite # tls_cipher_suite_null =>
             tls'.tx_cipherspec.suite # tls_cipher_suite_null]_vars
    /\ [][tls.rx_cipherspec.suite # tls_cipher_suite_null =>
             tls'.rx_cipherspec.suite # tls_cipher_suite_null]_vars

\* the Finished of the client has left under AES, as the first record of
\* the new cipher
C34_Witness ==
    /\ tls.tx_cipherspec.suite.cipher = "aes_cbc"
    /\ tls.tx_seq = <<0, 0, 0, 1>>
    /\ tls.tx_pending = {}
    /\ Len(wire) = 4
    /\ wire[4][1] = B(TLS_TYPE_HANDSHAKE)
    /\ wire[3][1] = B(TLS_TYPE_CHANGE_CIPHER)

\* the digest in use is the one of the version, and the two running
\* contexts hold the same messages
C35_Selected ==
    /\ tls.version >= TLS_VERSION_TLS_1_2 <=>
          /\ tls.handshake_digest = "sha256"
          /\ tls.handshake_ctx = "handshake_sha256_ctx"
    /\ tls.version < TLS_VERSION_TLS_1_2 <=>
          /\ tls.handshake_digest = "md5_sha1"
          /\ tls.handshake_ctx = "handshake_md5_sha1_ctx"
    /\ tls.handshake_md5_sha1_ctx = tls.handshake_sha256_ctx
    /\ handshake_ctx(tls) = tls.handshake_sha256_ctx

\* C35: in every reachable state the handshake digest in use is SHA-256
\* exactly when the version is at least TLS 1.2 and MD5+SHA-1 exactly when
\* it is lower, both running transcripts have absorbed the same messages,
\* nothing absorbed is lost, and the Client Hello joins both when it is
\* sent: the digest selected after the Server Hello covers it too.
C35_DigestOfVersion ==
    /\ []C35_Selected
    /\ [][/\ Len(tls'.handshake_sha256_ctx) >= Len(tls.handshake_sha256_ctx)
          /\ Take(tls'.handshake_sha256_ctx, Len(tls.handshake_sha256_ctx)) =
                tls.handshake_sha256_ctx
          /\ Take(tls'.handshake_md5_sha1_ctx,
                  Len(tls.handshake_md5_sha1_ctx)) =
                tls.handshake_md5_sha1_ctx]_vars
    /\ [][C32_Emits(TLS_TX_CLIENT_HELLO) =>
             C9_Grew(tls, tls', Drop(wire'[Len(wire')], TlsHeaderLen))]_vars

\* a Server Hello of TLS 1.1 has switched the digest, and the transcript
\* of MD5+SHA-1 begins with the Client Hello sent before it
C35_Witness ==
    /\ tls.version = TLS_VERSION_TLS_1_1
    /\ tls.handshake_digest = "md5_sha1"
    /\ wire # <<>>
    /\ wire[1][6] = B(TLS_CLIENT_HELLO)
    /\ Len(tls.handshake_md5_sha1_ctx) > Len(wire[1]) - TlsHeaderLen
    /\ Take(tls.handshake_md5_sha1_ctx, Len(wire[1]) - TlsHeaderLen) =
          Drop(wire[1], TlsHeaderLen)

\* the places of the Client Hello among the records sent so far
C36_Hellos ==
    {i \in 1..Len(wire) :
        /\ wire[i][1] = B(TLS_TYPE_HANDSHAKE)
        /\ Len(wire[i]) > TlsHeaderLen
        /\ wire[i][TlsHeaderLen + 1] = B(TLS_CLIENT_HELLO)}

\* at most one Client Hello has been sent; until it has, it is the first
\* pending transmission and nothing but application data has been sent
C36_First ==
    /\ Cardinality(C36_Hellos) <= 1
    /\ \A i \in C36_Hellos :
          /\ TLS_TX_CLIENT_HELLO \notin tls.tx_pending
          /\ \A j \in 1..(i - 1) : wire[j][1] = B(TLS_TYPE_DATA)
    /\ TLS_TX_CLIENT_HELLO \in tls.tx_pending =>
          /\ C36_Hellos = {}
          /\ FirstPending(tls.tx_pending) = TLS_TX_CLIENT_HELLO
          /\ \A j \in 1..Len(wire) : wire[j][1] = B(TLS_TYPE_DATA)

\* C36: the Client Hello is emitted at most once per session, and no other
\* handshake record and no Change Cipher Spec record is emitted before it,
\* whatever the server sends before the process runs for the first time.
C36_ClientHelloFirst ==
    /\ []C36_First
    /\ [][TLS_TX_CLIENT_HELLO \notin tls.tx_pending =>
             /\ TLS_TX_CLIENT_HELLO \notin tls'.tx_pending
             /\ C36_Hellos' = C36_Hellos]_vars
    /\ [][C32_Emits(TLS_TX_CLIENT_HELLO) =>
             C36_Hellos' = {Len(wire')}]_vars

\* a Finished of the server arrived before the process ran, and the Client
\* Hello went out as the first record all the same
C36_Witness ==
    /\ menu = MenuStray
    /\ C36_Hellos = {1}
    /\ nrx > 0
    /\ Len(wire) = 1
    /\ Len(tls.handshake_sha256_ctx) > Len(wire[1]) - TlsHeaderLen
    /\ Take(tls.handshake_sha256_ctx, Len(wire[1]) - TlsHeaderLen) #
          Drop(wire[1], TlsHeaderLen)

\* xfer_deliver on the ciphertext interface, piece after piece: a piece
\* reaches the session only while the interface is open
RECURSIVE C37_Feed(_, _, _)
C37_Feed(s, e, pieces) ==
    IF pieces = <<>> THEN s
    ELSE IF ~s.tls.cipherstream.open THEN s
    ELSE C37_Feed(tls_cipherstream_deliver(s, e, Head(pieces)).s, e,
                  Tail(pieces))

\* a byte stream: what is in flight, followed by a record of two bytes
C37_Stream ==
    net_in \o TlsHeader(TLS_TYPE_ALERT, tls.version, 2) \o <<B(1), B(0)>>

\* the places at which the stream is cut
C37_Cuts ==
    {k \in {1, TlsHeaderLen, Len(net_in) - 1, Len(net_in),
            Len(net_in) + TlsHeaderLen, Len(C37_Stream) - 1} :
        k > 0 /\ k < Len(C37_Stream)}

\* the stream in one, two or three pieces, none of them empty
C37_Splits ==
    {<<C37_Stream>>}
       \cup {<<Take(C37_Stream, k), Drop(C37_Stream, k)>> : k \in C37_Cuts}
       \cup {<<Take(C37_Stream, k[1]),
               SubSeq(C37_Stream, k[1] + 1, k[2]),
               Drop(C37_Stream, k[2])>> :
                k \in {c \in C37_Cuts \X C37_Cuts : c[1] < c[2]}}

\* what the claim compares: the records passed on, and the reassembler
C37_Outcome(s) ==
    [rx_state |-> s.tls.rx_state, rx_rcvd |-> s.tls.rx_rcvd,
     rx_seq |-> s.tls.rx_seq, rx_header |-> s.tls.rx_header,
     rx_data |-> s.tls.rx_data, app |-> s.app]

\* C37: reassembly is independent of fragmentation: for a byte stream and
\* any two ways of splitting it into non-empty deliveries, the records
\* passed to the receive path and the final rx_state, rx_rcvd, rx_seq,
\* header and body are the same.
C37_Fragmentation ==
    (tls.cipherstream.open /\ net_in # <<>>) =>
       \A e \in Env :
          With(C37_Outcome(C37_Feed(St, e, <<C37_Stream>>)),
               LAMBDA whole :
                  \A split \in C37_Splits :
                     C37_Outcome(C37_Feed(St, e, split)) = whole)

\* the same with surroundings in which nothing goes wrong
C37_CalmFragmentation ==
    (tls.cipherstream.open /\ net_in # <<>>) =>
       With(C37_Outcome(C37_Feed(St, EnvCalm, <<C37_Stream>>)),
            LAMBDA whole :
               \A split \in C37_Splits :
                  C37_Outcome(C37_Feed(St, EnvCalm, split)) = whole)

\* a header or a record has been received in full and not been processed
C38_Complete(c) ==
    IF c.rx_state = TLS_RX_HEADER
    THEN c.rx_rcvd = TlsHeaderLen
    ELSE c.rx_rcvd = N16(SubSeq(c.rx_header, 4, 5))

\* C38: when a delivery of ciphertext returns without error, no record
\* received in full is left unprocessed: if the bytes received so far end
\* with a whole header and all the body bytes its length announces, a
\* length of 0 included, the record has been passed to the receive path
\* without waiting for further bytes.
C38_NothingLeft ==
    (tls.cipherstream.open /\ net_in # <<>>) =>
       \A e \in Env, n \in {TlsHeaderLen, Len(net_in)} :
          n <= Len(net_in) =>
             With(tls_cipherstream_deliver(St, e, Take(net_in, n)),
                  LAMBDA r : r.rc = OK => ~C38_Complete(r.s.tls))

\* first messages of a record: of unknown type, a Server Hello Done, a
\* Hello Request, a forged Finished, a Server Hello Done with a body
C39_Firsts ==
    {Handshake(99, <<B(5)>>),
     ServerHelloDone,
     Handshake(TLS_HELLO_REQUEST, <<>>),
     Handshake(TLS_FINISHED, Blob(<<"forged">>, VerifyDataLen)),
     Handshake(TLS_SERVER_HELLO_DONE, <<B(0)>>)}

\* what follows the first message: whole messages
C39_Wholes ==
    {<<>>, ServerHelloDone, Handshake(99, <<B(5)>>),
     Handshake(99, <<B(5)>>) \o ServerHelloDone}

\* what follows the first message and runs past the end of the record:
\* a length of 2 over one byte, a prefix cut short, a whole message and
\* then a length of 16777215 over nothing
C39_Overlong ==
    {TypeLength(TLS_SERVER_HELLO_DONE, 2) \o <<B(0)>>,
     <<B(TLS_SERVER_HELLO_DONE), B(0)>>,
     Handshake(99, <<B(5)>>) \o TypeLength(TLS_FINISHED, 16777215)}

\* one turn of the loop on the message m: its handler, then the digest
C39_Turn(s, e, m) ==
    With(tls_handshake_dispatch(s, e, m[1], Drop(m, HandshakeHdrLen)),
         LAMBDA r :
            [rc |-> r.rc, s |-> tls_new_handshake_add(r.s, m[1], m)])

\* the parse of what follows a first message that was accepted
C39_Rest(s, e, rest) ==
    With(tls_new_handshake(s, e, rest),
         LAMBDA r :
            /\ rest \in C39_Overlong =>
                  /\ r.rc = EINVAL
                  /\ Len(r.s.tls.handshake_sha256_ctx) <
                        Len(s.tls.handshake_sha256_ctx) + Len(rest)
            /\ rest = <<>> => r = [rc |-> OK, s |-> s]
            /\ rest = ServerHelloDone => r = C39_Turn(s, e, rest)
            /\ Len(r.s.tls.handshake_sha256_ctx) <=
                  Len(s.tls.handshake_sha256_ctx) + Len(rest))

\* the records of the claim, parsed in the present state
C39_Parses ==
    (tls.cipherstream.open /\ tls.plainstream.open) =>
       \A m \in C39_Firsts, e \in {EnvCalm} :
          With(C39_Turn(St, e, m),
               LAMBDA one :
                  /\ Len(m) = HandshakeHdrLen + tls_uint24(SubSeq(m, 2, 4))
                  /\ \A rest \in C39_Wholes \cup C39_Overlong :
                        With(tls_new_handshake(St, e, m \o rest),
                             LAMBDA all :
                                IF one.rc # OK THEN all = one
                                ELSE /\ all = tls_new_handshake(one.s, e, rest)
                                     /\ C39_Rest(one.s, e, rest)))

\* C39: the parse of a received Handshake record ends for every content:
\* each turn of the loop consumes one whole message, a prefix of 4 bytes
\* and as many bytes as its length says, that lies within the record; a
\* message whose length runs past the end of the record is refused with
\* EINVAL; the parse stops at the first message whose handler fails, and
\* the messages behind it are not processed.
C39_HandshakeParse ==
    /\ []C39_Parses
    /\ [][(/\ sent' = sent
           /\ sent \in {"hs_overlength", "hs_short"}
           /\ tls'.rx_seq = tls.rx_seq
           /\ tls.rx_state = TLS_RX_DATA
           /\ net_in # <<>>
           /\ net_in' = <<>>) =>
             /\ ~tls'.cipherstream.open
             /\ tls'.handshake_sha256_ctx = tls.handshake_sha256_ctx]_vars

\* a record whose only message runs past its end has been refused: the
\* session is closed, and the message has joined no transcript
C39_Witness ==
    /\ sent = "hs_overlength"
    /\ net_in = <<>>
    /\ ~tls.cipherstream.open
    /\ tls.rx_state = TLS_RX_DATA
    /\ tls.rx_rcvd = 5
    /\ tls.rx_seq = <<0, 0, 0, 0>>
    /\ tls.handshake_sha256_ctx = <<>>

\* the encoded message has the form 00 02, padding without a zero byte and
\* at least 8 bytes long, 00, plaintext, and is max_len bytes long
C40_Encoded(encoded, max_len, plaintext) ==
    /\ Len(encoded) = max_len
    /\ max_len - Len(plaintext) - 3 >= 8
    /\ encoded[1] = B(0)
    /\ encoded[2] = B(2)
    /\ \A i \in 3..(max_len - Len(plaintext) - 1) : encoded[i][1] = "nz"
    /\ encoded[max_len - Len(plaintext)] = B(0)
    /\ Drop(encoded, max_len - Len(plaintext)) = plaintext

\* C40: rsa_encrypt returns ERANGE and writes no ciphertext whenever the
\* length of the plaintext plus 11 exceeds the length of the modulus, for
\* every length of the modulus, those below 11 included; otherwise the
\* encoded message has exactly the length of the modulus and the form
\* 00 02, at least 8 padding bytes that are not 0, 00, plaintext, and the
\* length returned is the length of the modulus.
C40_RsaEncrypt ==
    \A max_len \in 1..24, n \in 0..5 :
       \A r \in rsa_encrypt(max_len, Take(tls.pre_master_secret, n), EnvCalm) :
          IF n + 11 > max_len
          THEN /\ r.rc = ERANGE
               /\ r.out = <<>>
          ELSE /\ r.rc = OK
               /\ r.len = max_len
               /\ Len(r.out) = max_len
               /\ C40_Encoded(r.encoded, max_len,
                              Take(tls.pre_master_secret, n))

\* the same for the lengths of the modulus from 11 on
C40_RsaEncryptFrom11 ==
    \A max_len \in 11..24, n \in 0..5 :
       \A r \in rsa_encrypt(max_len, Take(tls.pre_master_secret, n), EnvCalm) :
          IF n + 11 > max_len
          THEN /\ r.rc = ERANGE
               /\ r.out = <<>>
          ELSE /\ r.rc = OK
               /\ r.len = max_len
               /\ Len(r.out) = max_len
               /\ C40_Encoded(r.encoded, max_len,
                              Take(tls.pre_master_secret, n))

====
